---- MODULE Spec2Model ----
(***************************************************************************)
(* Model of the AWS function-deployment plugin (AwsDeployFunction):        *)
(*   - the deployment locator (setLastDeploymentDirectory /                *)
(*     getLastDeploymentDirectory) and the template download               *)
(*     (downloadTemplateFromS3), chained by the hook                       *)
(*     'aws:deploy:function:downloadTemplate';                             *)
(*   - the role resolver (normalizeArnRole);                               *)
(*   - the configuration update (updateFunctionConfiguration);             *)
(*   - the code upload (deployFunction).                                   *)
(*                                                                         *)
(* JavaScript strings whose characters the code inspects (object keys,     *)
(* environment keys, role strings) are sequences of tokens: "/", "-", ":"  *)
(* and the digits are single characters, any other token is a run of       *)
(* characters free of those.                                               *)
(***************************************************************************)
EXTENDS Integers, Sequences, FiniteSets, TLC

(***************************************************************************)
(* Bounds of the model.                                                    *)
(***************************************************************************)
MaxPages == 3
MaxEntries == 2
MaxResolves == 2
MaxFields == 2
MaxSyncs == 2

(***************************************************************************)
(* JavaScript values.                                                      *)
(***************************************************************************)
Undefined == [t |-> "undefined"]

\* a string value, and a string value given by its tokens
Str(s) == [t |-> "string", v |-> s]

Chars(s) == [t |-> "string", chars |-> s]

Num(n) == [t |-> "number", v |-> n]

\* an array value
Arr(items) == [t |-> "array", items |-> items]

Bool(b) == [t |-> "boolean", v |-> b]

\* the mark of a property that an object does not have
Absent == [t |-> "absent"]

\* a structured placeholder, such as { Ref: 'X' }
Placeholder == [t |-> "object", Ref |-> "X"]

\* _.isObject(value): objects and arrays, not strings, numbers, undefined
IsObject(v) == v.t \in {"object", "array", "Buffer"}

\* JavaScript truthiness
Truthy(v) ==
  CASE v.t \in {"undefined", "null"} -> FALSE
    [] v.t = "string" -> (IF "chars" \in DOMAIN v THEN v.chars # <<>> ELSE v.v # "")
    [] v.t = "number" -> v.v # 0
    [] v.t = "boolean" -> v.v
    [] OTHER -> TRUE

\* obj[f], undefined when the object has no such property
Field(obj, f) == IF f \in DOMAIN obj THEN obj[f] ELSE Undefined

Digits == {"0", "1", "2", "3", "4", "5", "6", "7", "8", "9"}

DigitVal(d) ==
  CASE d = "0" -> 0 [] d = "1" -> 1 [] d = "2" -> 2 [] d = "3" -> 3
    [] d = "4" -> 4 [] d = "5" -> 5 [] d = "6" -> 6 [] d = "7" -> 7
    [] d = "8" -> 8 [] d = "9" -> 9

RECURSIVE DecimalValue(_)
DecimalValue(s) ==
  IF s = <<>> THEN 0
  ELSE 10 * DecimalValue(SubSeq(s, 1, Len(s) - 1)) + DigitVal(s[Len(s)])

\* _.toInteger of a string: its decimal value, 0 when it is not a number (NaN)
ToInteger(s) ==
  IF s # <<>> /\ \A i \in 1..Len(s) : s[i] \in Digits THEN DecimalValue(s) ELSE 0

DigitOf(n) ==
  CASE n = 0 -> "0" [] n = 1 -> "1" [] n = 2 -> "2" [] n = 3 -> "3"
    [] n = 4 -> "4" [] n = 5 -> "5" [] n = 6 -> "6" [] n = 7 -> "7"
    [] n = 8 -> "8" [] n = 9 -> "9"

RECURSIVE NumberToString(_)
\* `${time}` of a non-negative integer
NumberToString(n) ==
  IF n < 10 THEN <<DigitOf(n)>>
  ELSE NumberToString(n \div 10) \o <<DigitOf(n % 10)>>

\* (new Date(time)).toISOString(): a string fixed by time, with '-' separators
ToISOString(time) == <<"D">> \o NumberToString(time) \o <<"-", "01", "-", "01", "T", "Z">>

(***************************************************************************)
(* The object store's keys.                                                *)
(***************************************************************************)
Service == "svc"
FunctionName == "svc-dev-first"
Stage == "dev"

\* `serverless/${service}/${this.options.stage}`
ListPrefix == <<"serverless", "/", Service, "/", Stage>>

DeploymentKey(time, file) ==
  ListPrefix \o <<"/">> \o NumberToString(time) \o <<"-">> \o ToISOString(time)
    \o <<"/", file>>

\* a key of the same service under a stage whose name continues Stage: the
\* store lists it under the Prefix of ListRequest as well
SiblingKey(time, file) ==
  ListPrefix \o <<"2", "/">> \o NumberToString(time) \o <<"-">> \o ToISOString(time)
    \o <<"/", file>>

\* keys a listing may return
KeyPool ==
  { DeploymentKey(2, "compiled-cloudformation-template.json"),
    DeploymentKey(12, "svc.zip"),
    DeploymentKey(20, "layer") \o <<"/", "svc.zip">>,
    SiblingKey(30, "compiled-cloudformation-template.json"),
    <<"stray">> }

\* /^.*\/([^/-]+).*\/.*?$/.exec(key): the positions of a '/' at which the
\* greedy prefix ^.*\/ can end so that the rest of the pattern matches
MatchStarts(key) ==
  { i \in 1..Len(key) :
      /\ key[i] = "/"
      /\ i + 1 <= Len(key)
      /\ key[i + 1] \notin {"/", "-"}
      /\ \E j \in (i + 2)..Len(key) : key[j] = "/" }

SetMax(S) == CHOOSE m \in S : \A x \in S : x <= m

RECURSIVE RunEnd(_, _)
\* the last position of the run of [^/-] tokens that starts at position i
RunEnd(key, i) ==
  IF i + 1 <= Len(key) /\ key[i + 1] \notin {"/", "-"} THEN RunEnd(key, i + 1) ELSE i

\* parsedTime: <<>> stands for null (no match), else the captured group
ParsedTime(key) ==
  IF MatchStarts(key) = {} THEN <<>>
  ELSE LET i == SetMax(MatchStarts(key))
       IN  SubSeq(key, i + 1, RunEnd(key, i + 1))

\* the callback of _.reduce over the entries of one page
ReduceStep(acc, item) ==
  LET parsedTime == ParsedTime(item.Key)
  IN  IF parsedTime = <<>> THEN acc
      ELSE LET time == ToInteger(parsedTime)
           IN  IF time > acc THEN time ELSE acc

RECURSIVE Reduce(_, _)
Reduce(content, acc) ==
  IF content = <<>> THEN acc
  ELSE Reduce(Tail(content), ReduceStep(acc, Head(content)))

\* _.get(result, 'Contents', [])
GetContents(result) ==
  IF "Contents" \in DOMAIN result THEN result.Contents ELSE <<>>

\* the latest timestamp after one page, ignoring the earlier pages
LatestOfPageOnly(result, current) == Reduce(GetContents(result), 0)

\* const latest = _.reduce(content, ..., current)
LatestOfPage(result, current) == Reduce(GetContents(result), current)

\* a test that takes every page for a truncated one
GetTruncatedAlways(result) == TRUE

\* _.get(result, 'Truncated')
GetTruncated(result) ==
  IF "Truncated" \in DOMAIN result THEN result.Truncated ELSE FALSE

\* result.NextContinuationToken, undefined on a page that carries none
NextToken(result) ==
  IF "NextContinuationToken" \in DOMAIN result
  THEN Str(result.NextContinuationToken) ELSE Undefined

\* the directory recorded for a timestamp
DirectoryOf(time) ==
  ListPrefix \o <<"/">> \o NumberToString(time) \o <<"-">> \o ToISOString(time)

(***************************************************************************)
(* Responses of the object store to listObjectsV2.                         *)
(***************************************************************************)
Tokens == {"tokA", "tokB"}

\* the entries of one page: a key is listed once in a page
ContentsPool ==
  UNION { { c \in [1..n -> [Key : KeyPool]] :
              \A i, j \in 1..n : c[i] = c[j] => i = j } : n \in 0..MaxEntries }

ListResults ==
  { [Contents |-> c, Truncated |-> TRUE, NextContinuationToken |-> "tokA"] :
      c \in ContentsPool }
    \cup { [Contents |-> <<>>, Truncated |-> TRUE, NextContinuationToken |-> k] :
             k \in Tokens }
    \cup { [Contents |-> c, Truncated |-> FALSE] : c \in ContentsPool }
    \cup { [Truncated |-> FALSE] }

(***************************************************************************)
(* Responses of the object store to getObject.                             *)
(***************************************************************************)
JsonType == "application/json"

BodyTexts == {"{}", " {} ", "{\"Resources\":{}}", "{"}

\* a Buffer is an object and truthy whatever its content; null is falsy
Bodies == { [t |-> "Buffer", v |-> x] : x \in BodyTexts } \cup { [t |-> "null"] }

MetadataPool == { [filesha256 |-> "h1"], [other |-> "x"] }

GetObjectFields == {"ContentType", "ContentLength", "Body", "Metadata"}

GetObjectResponses ==
  { [f \in D |-> CASE f = "ContentType" -> ct
                   [] f = "ContentLength" -> cl
                   [] f = "Body" -> b
                   [] f = "Metadata" -> m] :
      D \in SUBSET GetObjectFields,
      ct \in {JsonType, "text/plain"},
      cl \in {-1, 0, 2},
      b \in Bodies,
      m \in MetadataPool }

\* the gate with a size test that lets a zero length through
GateRejectsNegativeOnly(response) ==
  \/ ~ ("ContentType" \in DOMAIN response /\ response.ContentType = JsonType)
  \/ (IF "ContentLength" \in DOMAIN response THEN response.ContentLength ELSE 0) < 0
  \/ ~ ("Body" \in DOMAIN response /\ Truthy(response.Body))

\* the condition under which downloadTemplateFromS3 rejects the response
GateRejects(response) ==
  \/ ~ ("ContentType" \in DOMAIN response /\ response.ContentType = JsonType)
  \/ (IF "ContentLength" \in DOMAIN response THEN response.ContentLength ELSE 0) <= 0
  \/ ~ ("Body" \in DOMAIN response /\ Truthy(response.Body))

\* _.get(response, 'Metadata.filesha256', '')
GetFileSha(response) ==
  IF "Metadata" \in DOMAIN response /\ "filesha256" \in DOMAIN response.Metadata
  THEN response.Metadata.filesha256 ELSE ""

\* JSON.parse of the texts of BodyTexts: ok = FALSE is a SyntaxError
JsonParse(text) ==
  CASE text = "{}" -> [ok |-> TRUE, value |-> [t |-> "object", json |-> "{}"]]
    [] text = " {} " -> [ok |-> TRUE, value |-> [t |-> "object", json |-> "{}"]]
    [] text = "{\"Resources\":{}}" ->
         [ok |-> TRUE, value |-> [t |-> "object", json |-> "{\"Resources\":{}}"]]
    [] OTHER -> [ok |-> FALSE]

CompiledTemplateFileName == <<"compiled-cloudformation-template.json">>

(***************************************************************************)
(* State.                                                                  *)
(***************************************************************************)
VARIABLES
  pc,                      \* position of the operation in progress
  error,                   \* message of the rejection, "" when none
  calls,                   \* the remote requests issued so far, in order
  current,                 \* searchLatest's running maximum
  listed,                  \* history: the keys of all listing pages received
  pages,                   \* history: number of listing pages received
  lastPage,                \* history: the keys of the last listing page received
  continuation,            \* history: the tokens the later requests were issued with
  flags,                   \* history: the Truncated flag of each page received
  response,                \* history: the getObject response received
  lastDeploymentDirectory, \* provider.lastDeploymentDirectory (this.directory)
  templateHash,            \* this.templateHash
  template,                \* this.template
  chain,                   \* value handed from one .then callback to the next
  functionObj,             \* this.options.functionObj
  serviceObj,              \* this.serverless.service.serviceObject
  providerObj,             \* this.serverless.service.provider
  params,                  \* the patch built by updateFunctionConfiguration
  roleInput,               \* the argument of normalizeArnRole
  roleArn,                 \* the value normalizeArnRole's promise resolves to
  resolves,                \* history: number of normalizeArnRole invocations
  roleData,                \* history: the getRole response handed to .then
  callsBefore,             \* history: Len(calls) when the operation started
  artifact,                \* the file at artifactFilePath
  force,                   \* this.options.force
  remoteFunctionData,      \* this.serverless.service.provider.remoteFunctionData
  syncs,                   \* history: one record per finished deployFunction
  cwd,                     \* process.cwd(), as set by process.chdir
  loader,                  \* per invocation of YamlParser.parse: its progress
  s3Given,                 \* history: the params object as the caller built it
  s3Params,                \* the caller's params object
  s3Request,               \* what setServersideS3EncryptionOptions returned
  runs,                    \* per plugin instance: progress of its downloadTemplate hook
  directories              \* per plugin instance: its this.directory

locateVars ==
  <<current, listed, pages, lastPage, continuation, flags, lastDeploymentDirectory>>

fetchVars == <<response, templateHash, template, chain>>

templateVars == <<locateVars, fetchVars>>

configVars == <<functionObj, serviceObj, providerObj, params>>

roleVars == <<roleInput, roleArn, resolves, roleData>>

deployVars == <<artifact, force, remoteFunctionData, syncs>>

loaderVars == <<cwd, loader>>

encryptVars == <<s3Given, s3Params, s3Request>>

pairVars == <<runs, directories>>

vars ==
  <<pc, error, calls, callsBefore, templateVars, configVars, roleVars, deployVars,
    loaderVars, encryptVars, pairVars>>

(***************************************************************************)
(* Server-side encryption options of a request to the object store.        *)
(***************************************************************************)
\* provider.deploymentBucketObject with the given properties
BucketObj(fields) == [t |-> "object", bucket |-> fields]

\* the properties a deployment bucket object may be given
BucketSettings ==
  { [field |-> "serverSideEncryption", value |-> Str("AES256")],
    [field |-> "serverSideEncryption", value |-> Str("")],
    [field |-> "sseCustomerAlgorithim", value |-> Str("AES256")],
    [field |-> "sseCustomerKey", value |-> Str("secret")],
    [field |-> "sseCustomerKeyMD5", value |-> Str("digest")],
    [field |-> "sseKMSKeyId", value |-> Str("key-1")],
    [field |-> "sseKMSKeyId", value |-> Placeholder],
    [field |-> "name", value |-> Str("deployments")] }

RECURSIVE BucketSettingsUpTo(_)
\* the sets of at most k properties, no property given twice
BucketSettingsUpTo(k) ==
  IF k = 0 THEN {{}}
  ELSE LET smaller == BucketSettingsUpTo(k - 1)
       IN  smaller \cup
             UNION { { S \cup {x} :
                         x \in { y \in BucketSettings : \A z \in S : z.field # y.field } } :
                     S \in smaller }

BucketObjects ==
  { BucketObj([f \in { x.field : x \in S } |->
                 (CHOOSE x \in S : x.field = f).value]) :
      S \in BucketSettingsUpTo(MaxFields) }

\* the params objects setServersideS3EncryptionOptions is called with
S3ParamsPool ==
  { [Bucket |-> Str("deployments"), Key |-> Str("template.json")],
    [Bucket |-> Str("deployments"), Key |-> Str("svc.zip"),
     ServerSideEncryption |-> Str("aws:kms")],
    [Bucket |-> Str("deployments"), Key |-> Str("svc.zip"),
     ACL |-> Str("private"), SSEKMSKeyId |-> Str("key-0")] }

\* a table that writes every field under its configuration name
EncryptionFieldsUnrenamed ==
  << <<"serverSideEncryption", "serverSideEncryption">>,
     <<"sseCustomerAlgorithim", "sseCustomerAlgorithim">>,
     <<"sseCustomerKey", "sseCustomerKey">>,
     <<"sseCustomerKeyMD5", "sseCustomerKeyMD5">>,
     <<"sseKMSKeyId", "sseKMSKeyId">> >>

\* encryptionFields: configuration name, request parameter
EncryptionFields ==
  << <<"serverSideEncryption", "ServerSideEncryption">>,
     <<"sseCustomerAlgorithim", "SSECustomerAlgorithm">>,
     <<"sseCustomerKey", "SSECustomerKey">>,
     <<"sseCustomerKeyMD5", "SSECustomerKeyMD5">>,
     <<"sseKMSKeyId", "SSEKMSKeyId">> >>

\* the elements of encryptionFields whose value in the bucket object is truthy
CopiedFields(deploymentBucketObject) ==
  { i \in 1..Len(EncryptionFields) :
      Truthy(Field(deploymentBucketObject.bucket, EncryptionFields[i][1])) }

\* setServersideS3EncryptionOptions(params): the object returned, and the
\* caller's object after the call; the loop writes to the clone only
SetServersideS3EncryptionOptions(given, deploymentBucketObject) ==
  LET copied == IF Truthy(deploymentBucketObject)
                THEN CopiedFields(deploymentBucketObject) ELSE {}
      targets == { EncryptionFields[i][2] : i \in copied }
      clonedParams ==
        [f \in DOMAIN given \cup targets |->
           IF f \in targets
           THEN LET i == CHOOSE j \in copied : EncryptionFields[j][2] = f
                IN  deploymentBucketObject.bucket[EncryptionFields[i][1]]
           ELSE given[f]]
  IN  [clonedParams |-> clonedParams, params |-> given]

EncryptUnset ==
  /\ s3Given = Undefined
  /\ s3Params = Undefined
  /\ s3Request = Undefined

(***************************************************************************)
(* Two plugin instances of one process, each deploying to a stage of its   *)
(* own.                                                                    *)
(***************************************************************************)
Runs == {1, 2}

\* this.options.stage of each instance
StageOf(i) == IF i = 1 THEN "dev" ELSE "prod"

\* `serverless/${service}/${stage}/${time}-${(new Date(time)).toISOString()}`
DirectoryIn(stage, time) ==
  <<"serverless", "/", Service, "/", stage, "/">>
    \o NumberToString(time) \o <<"-">> \o ToISOString(time)

\* the listing pages the store returns to an instance: at most one key, of
\* its stage
PairResults(i) ==
  LET contents == { <<>> } \cup
                    { <<[Key |-> DirectoryIn(StageOf(i), time) \o <<"/", "svc.zip">>]>> :
                        time \in {2, 12} }
  IN  { [Contents |-> c, Truncated |-> TRUE, NextContinuationToken |-> "tokA"] :
          c \in contents }
        \cup { [Contents |-> c, Truncated |-> FALSE] : c \in contents }

\* a directory kept in one place for all instances
DirectoryCellShared(i) == 1

\* where an instance keeps its directory: this.directory, a property of the
\* instance itself
DirectoryCell(i) == i

IdleRun == [pc |-> "idle", current |-> 0, pages |-> 0, key |-> <<>>]

PairUnset ==
  /\ runs = [i \in Runs |-> IdleRun]
  /\ directories = [i \in Runs |-> Undefined]

\* a listing request that starts over instead of continuing
ListRequestFromStart(token) ==
  [service |-> "S3", operation |-> "listObjectsV2",
   params |-> [Prefix |-> ListPrefix, ContinuationToken |-> Undefined]]

ListRequest(token) ==
  [service |-> "S3", operation |-> "listObjectsV2",
   params |-> [Prefix |-> ListPrefix, ContinuationToken |-> token]]

GetObjectRequest(directory) ==
  [service |-> "S3", operation |-> "getObject",
   params |->
     SetServersideS3EncryptionOptions(
       [Key |-> directory \o <<"/">> \o CompiledTemplateFileName],
       Field(providerObj, "deploymentBucketObject")).clonedParams]

Reject(message) == pc' = "rejected" /\ error' = message

(***************************************************************************)
(* The deployment locator, first step of the hook                          *)
(* 'aws:deploy:function:downloadTemplate'.                                 *)
(***************************************************************************)
\* if (!time)
NoDeploymentNever(time) == time < 0

NoDeployment(time) == time = 0

\* no function selected: the parts of the state the hook does not use
(***************************************************************************)
(* YamlParser: documents, the files and remote resources they name.        *)
(* A path is the sequence of its segments (yamlFilePath.split(path.sep)),  *)
(* a text is a sequence of lines `key: scalar` or `key: { $ref: target }`, *)
(* a tree is a set of <<path of keys, leaf>>.                              *)
(***************************************************************************)
Invocations == {1, 2}

Line(key, scalar) == [key |-> key, scalar |-> scalar]

RefLine(key, target) == [key |-> key, ref |-> target]

\* the files on disk, by path
Files ==
  [f \in { <<"srv", "a", "root.yml">>, <<"srv", "a", "part.yml">>,
           <<"srv", "a", "leaf.yml">>, <<"srv", "b", "root.yml">>,
           <<"srv", "b", "part.yml">>, <<"srv", "c", "root.yml">>,
           <<"srv", "c", "only.yml">> } |->
     CASE f = <<"srv", "a", "root.yml">> ->
            << Line("service", "svcA"), RefLine("custom", <<"part.yml">>),
               RefLine("shared", <<"http:", "x", "shared.yml">>),
               RefLine("alias", <<"#", "service">>) >>
       [] f = <<"srv", "a", "part.yml">> ->
            << Line("name", "partA"), RefLine("deep", <<"leaf.yml">>) >>
       [] f = <<"srv", "a", "leaf.yml">> -> << Line("v", "leafA") >>
       [] f = <<"srv", "b", "root.yml">> ->
            << Line("service", "svcB"), RefLine("custom", <<"part.yml">>) >>
       [] f = <<"srv", "b", "part.yml">> -> << Line("name", "partB") >>
       [] f = <<"srv", "c", "root.yml">> ->
            << Line("service", "svcC"), RefLine("custom", <<"only.yml">>) >>
       [] f = <<"srv", "c", "only.yml">> -> << Line("v", "onlyC") >>]

\* the resources reachable over the network, by URI
Remotes ==
  [u \in { <<"http:", "x", "shared.yml">>, <<"http:", "x", "leaf.yml">> } |->
     IF u = <<"http:", "x", "shared.yml">>
     THEN << Line("r", "shared"), RefLine("more", <<"http:", "x", "leaf.yml">>) >>
     ELSE << Line("v", "remoteLeaf") >>]

\* the paths parse is called with; the last one names no file
RootPaths ==
  { <<"srv", "a", "root.yml">>, <<"srv", "b", "root.yml">>,
    <<"srv", "c", "root.yml">>, <<"srv", "b", "none.yml">> }

\* parentDir: split(path.sep), pop(), join('/')
ParentDir(yamlFilePath) == SubSeq(yamlFilePath, 1, Len(yamlFilePath) - 1)

\* YAML.load(res.text): the tree of a text
YamlLoad(text) ==
  { << <<text[i].key>>,
       IF "ref" \in DOMAIN text[i]
       THEN [ref |-> text[i].ref]
       ELSE [scalar |-> text[i].scalar] >> : i \in 1..Len(text) }

\* the class of a reference, by the form of its target
RefType(target) ==
  IF target[1] = "#" THEN "local"
  ELSE IF target[1] = "http:" THEN "remote"
  ELSE "relative"

\* a filter that leaves remote references alone
FilterRelativeOnly == {"relative"}

\* options.filter
Filter == {"relative", "remote"}

\* the reference nodes of a tree that resolution has to replace
Pending(tree) ==
  { n \in tree : "ref" \in DOMAIN n[2] /\ RefType(n[2].ref) \in Filter }

\* the tree with the reference node replaced by the document it points to
Splice(tree, node, document) ==
  (tree \ {node}) \cup { <<node[1] \o m[1], m[2]>> : m \in document }

IdleLoader == [state |-> "idle", root |-> <<>>, tree |-> {}, bases |-> {}]

\* no document is being loaded
LoaderUnset ==
  /\ cwd = <<"srv">>
  /\ loader = [i \in Invocations |-> IdleLoader]

ConfigUnset ==
  /\ functionObj = [name |-> FunctionName]
  /\ serviceObj = Undefined
  /\ providerObj = [name |-> "aws"]
  /\ params = Undefined

RoleUnset ==
  /\ roleInput = Undefined
  /\ roleData = Undefined
  /\ roleArn = Undefined
  /\ resolves = 0

\* the remote descriptor stored by the initialize hook (checkIfFunctionExists)
RemoteFunctionData(codeSha256) ==
  [Configuration |->
     [FunctionName |-> Str(FunctionName),
      CodeSha256 |-> codeSha256,
      KMSKeyArn |-> Str("kms-f"),
      Description |-> Str("first"),
      MemorySize |-> Num(512),
      Timeout |-> Num(6),
      Role |-> Chars(<<"arn", ":", "aws", ":", "iam", ":", ":", "999", ":", "role", "/",
                       "admin">>)]]

\* no artifact under consideration: the parts of the state only deployFunction uses
DeployUnset ==
  /\ artifact = [exists |-> FALSE]
  /\ force = Undefined
  /\ remoteFunctionData = RemoteFunctionData("hashOld=")
  /\ syncs = <<>>

\* nothing received from the object store yet
TemplateUnset ==
  /\ current = 0
  /\ listed = {}
  /\ pages = 0
  /\ lastPage = {}
  /\ continuation = <<>>
  /\ flags = <<>>
  /\ lastDeploymentDirectory = Undefined
  /\ response = Undefined
  /\ templateHash = Undefined
  /\ template = Undefined
  /\ chain = Undefined

InitLocate ==
  /\ pc = "idle"
  /\ error = ""
  /\ calls = <<>>
  /\ current = 0
  /\ listed = {}
  /\ pages = 0
  /\ lastPage = {}
  /\ continuation = <<>>
  /\ flags = <<>>
  /\ response = Undefined
  /\ lastDeploymentDirectory = Undefined
  /\ templateHash = Undefined
  /\ template = Undefined
  /\ chain = Undefined
  /\ callsBefore = 0
  /\ ConfigUnset
  /\ RoleUnset
  /\ LoaderUnset
  /\ EncryptUnset
  /\ PairUnset
  /\ DeployUnset

\* setLastDeploymentDirectory up to its first request: searchLatest(0)
SetLastDeploymentDirectory ==
  /\ pc = "idle"
  /\ calls' = Append(calls, ListRequest(Undefined))
  /\ current' = 0
  /\ pc' = "listing"
  /\ UNCHANGED <<error, listed, pages, lastPage, continuation, flags, lastDeploymentDirectory,
                 fetchVars>>
  /\ UNCHANGED <<callsBefore, configVars, roleVars, deployVars>>
  /\ UNCHANGED <<loaderVars, encryptVars, pairVars>>

\* the .then(result => ...) of searchLatest on one listing response
SearchLatestThen ==
  /\ pc = "listing"
  /\ \E result \in ListResults :
       /\ GetTruncated(result) => pages + 1 < MaxPages
       /\ LET latest == LatestOfPage(result, current)
          IN  /\ current' = latest
              /\ lastPage' = { GetContents(result)[i].Key :
                                  i \in 1..Len(GetContents(result)) }
              /\ listed' = listed \cup lastPage'
              /\ pages' = pages + 1
              /\ flags' = Append(flags, "Truncated" \in DOMAIN result /\ result.Truncated)
              /\ IF GetTruncated(result)
                 THEN /\ calls' = Append(calls, ListRequest(NextToken(result)))
                      /\ continuation' = Append(continuation, NextToken(result))
                      /\ pc' = "listing"
                 ELSE /\ calls' = calls
                      /\ continuation' = continuation
                      /\ pc' = "searched"
  /\ UNCHANGED <<error, lastDeploymentDirectory, fetchVars>>
  /\ UNCHANGED <<callsBefore, configVars, roleVars, deployVars>>
  /\ UNCHANGED <<loaderVars, encryptVars, pairVars>>

\* the .then(time => ...) after searchLatest(0)
LocateThen ==
  /\ pc = "searched"
  /\ IF NoDeployment(current)
     THEN /\ Reject("Could not find a previous service deployment")
          /\ UNCHANGED lastDeploymentDirectory
     ELSE /\ lastDeploymentDirectory' = Chars(DirectoryOf(current))
          /\ pc' = "located"
          /\ UNCHANGED error
  /\ UNCHANGED <<calls, current, listed, pages, lastPage, continuation, flags, fetchVars>>
  /\ UNCHANGED <<callsBefore, configVars, roleVars, deployVars>>
  /\ UNCHANGED <<loaderVars, encryptVars, pairVars>>

\* the provider rejects the listing request in flight
ListFails ==
  /\ pc = "listing"
  /\ Reject("TransportError")
  /\ UNCHANGED <<calls, templateVars>>
  /\ UNCHANGED <<callsBefore, configVars, roleVars, deployVars>>
  /\ UNCHANGED <<loaderVars, encryptVars, pairVars>>

NextLocate ==
  \/ SetLastDeploymentDirectory
  \/ SearchLatestThen
  \/ LocateThen
  \/ ListFails

SpecLocate == InitLocate /\ [][NextLocate]_vars

\* the store answers a listing request in flight, with a page or a rejection,
\* and the continuation of a settled promise runs
FairLocate == WF_vars(SearchLatestThen \/ ListFails) /\ WF_vars(LocateThen)

SpecLocateLive == InitLocate /\ [][NextLocate]_vars /\ FairLocate

(***************************************************************************)
(* The template download, second step of the hook.                         *)
(***************************************************************************)
\* the state in which the locator leaves the run when the listing is one
\* page holding the template of one deployment
InitFetch ==
  \E time \in {1, 2, 3, 12} :
    LET key == DeploymentKey(time, CompiledTemplateFileName[1])
    IN  /\ pc = "located"
        /\ error = ""
        /\ calls = <<ListRequest(Undefined)>>
        /\ current = time
        /\ listed = {key}
        /\ pages = 1
        /\ lastPage = {key}
        /\ continuation = <<>>
        /\ flags = <<>>
        /\ lastDeploymentDirectory = Chars(DirectoryOf(time))
        /\ response = Undefined
        /\ templateHash = Undefined
        /\ template = Undefined
        /\ chain = Undefined
        /\ callsBefore = 1
        /\ ConfigUnset
        /\ RoleUnset
        /\ LoaderUnset
        /\ EncryptUnset
        /\ PairUnset
        /\ DeployUnset

\* downloadTemplateFromS3 up to its getObject request
DownloadTemplateFromS3 ==
  /\ pc = "located"
  /\ calls' = Append(calls, GetObjectRequest(lastDeploymentDirectory.chars))
  /\ pc' = "getting"
  /\ UNCHANGED <<error, templateVars>>
  /\ UNCHANGED <<callsBefore, configVars, roleVars, deployVars>>
  /\ UNCHANGED <<loaderVars, encryptVars, pairVars>>

\* the .then(response => ...) of downloadTemplateFromS3
GetObjectThen ==
  /\ pc = "getting"
  /\ \E r \in GetObjectResponses :
       /\ response' = r
       /\ IF GateRejects(r)
          THEN /\ Reject("Could not retrieve CF template from S3")
               /\ UNCHANGED <<templateHash, chain>>
          ELSE /\ templateHash' = Str(GetFileSha(r))
               /\ chain' = Str(r.Body.v)
               /\ pc' = "gated"
               /\ UNCHANGED error
  /\ UNCHANGED <<calls, locateVars, template>>
  /\ UNCHANGED <<callsBefore, configVars, roleVars, deployVars>>
  /\ UNCHANGED <<loaderVars, encryptVars, pairVars>>

\* the .then(template => BbPromise.try(() => JSON.parse(template)))
ParseThen ==
  /\ pc = "gated"
  /\ LET parsed == JsonParse(chain.v)
     IN  IF parsed.ok
         THEN /\ chain' = parsed.value
              /\ pc' = "parsed"
              /\ UNCHANGED error
         ELSE /\ Reject("SyntaxError")
              /\ UNCHANGED chain
  /\ UNCHANGED <<calls, locateVars, response, templateHash, template>>
  /\ UNCHANGED <<callsBefore, configVars, roleVars, deployVars>>
  /\ UNCHANGED <<loaderVars, encryptVars, pairVars>>

\* the .then(template => { this.template = template; return null; })
StoreThen ==
  /\ pc = "parsed"
  /\ template' = chain
  /\ pc' = "done"
  /\ UNCHANGED <<error, calls, locateVars, response, templateHash, chain>>
  /\ UNCHANGED <<callsBefore, configVars, roleVars, deployVars>>
  /\ UNCHANGED <<loaderVars, encryptVars, pairVars>>

\* the provider rejects the getObject request in flight
GetObjectFails ==
  /\ pc = "getting"
  /\ Reject("TransportError")
  /\ UNCHANGED <<calls, templateVars>>
  /\ UNCHANGED <<callsBefore, configVars, roleVars, deployVars>>
  /\ UNCHANGED <<loaderVars, encryptVars, pairVars>>

NextFetch ==
  \/ DownloadTemplateFromS3
  \/ GetObjectThen
  \/ ParseThen
  \/ StoreThen
  \/ GetObjectFails

SpecFetch == InitFetch /\ [][NextFetch]_vars

(***************************************************************************)
(* The role resolver, normalizeArnRole.                                    *)
(***************************************************************************)
IamRoleType == "AWS::IAM::Role"

\* this.serverless.service.resources.Resources, by logical name
Resources ==
  [n \in {<<"DeployRole">>, <<"RunRole">>, <<"Bucket">>} |->
     CASE n = <<"DeployRole">> ->
            [Type |-> IamRoleType,
             Properties |-> [Path |-> <<"/", "app", "/">>, RoleName |-> "deployer"]]
       [] n = <<"RunRole">> ->
            [Type |-> IamRoleType, Properties |-> [RoleName |-> "runner"]]
       [] n = <<"Bucket">> ->
            [Type |-> "AWS::S3::Bucket", Properties |-> [BucketName |-> "assets"]]]

LiteralArn(name) ==
  Chars(<<"arn", ":", "aws", ":", "iam", ":", ":", "999", ":", "role", "/", name>>)

\* { 'Fn::GetAtt': [name, 'Arn'] }
GetAtt(name) == [t |-> "object", GetAtt |-> <<name, "Arn">>]

\* role values that are strings
RoleStrings ==
  { LiteralArn("admin"), LiteralArn("audit"), Chars(<<"DeployRole">>),
    Chars(<<"RunRole">>), Chars(<<"Bucket">>), Chars(<<"Ghost">>) }

\* the values normalizeArnRole is called with
RolePool == RoleStrings \cup { GetAtt("DeployRole"), GetAtt("RunRole"), Placeholder }

AccountIds == {"111", "222", "333"}

GetRoleResponses ==
  { [Arn |-> LiteralArn("deployer")], [Arn |-> LiteralArn("runner")],
    [RoleName |-> "runner"] }

\* a test that finds no ':' in any string
HasColonNever(chars) == FALSE

\* role.indexOf(':') !== -1
HasColon(chars) == \E i \in 1..Len(chars) : chars[i] = ":"

\* a role name compiled without the default path
CompiledFullRoleNameBare(roleProperties) ==
  (IF "Path" \in DOMAIN roleProperties THEN roleProperties.Path ELSE <<>>)
    \o <<roleProperties.RoleName>>

\* `${roleProperties.Path || '/'}${roleProperties.RoleName}`
CompiledFullRoleName(roleProperties) ==
  (IF "Path" \in DOMAIN roleProperties /\ roleProperties.Path # <<>>
   THEN roleProperties.Path ELSE <<"/">>)
    \o <<IF "RoleName" \in DOMAIN roleProperties
         THEN roleProperties.RoleName ELSE "undefined">>

\* a type test that lets every resource pass as a role
NotIamRoleNever(roleResource) == FALSE

\* roleResource.Type !== 'AWS::IAM::Role'
NotIamRole(roleResource) == roleResource.Type # IamRoleType

\* the synchronous part of normalizeArnRole: what it throws, resolves to at
\* once, or requests
NormalizeArnRoleStart(role) ==
  IF role.t = "string"
  THEN IF ~ HasColon(role.chars)
       THEN IF role.chars \notin DOMAIN Resources
            THEN [kind |-> "throw", message |-> "TypeError"]
            ELSE LET roleResource == Resources[role.chars]
                 IN  IF NotIamRole(roleResource)
                     THEN [kind |-> "throw",
                           message |-> "Provided resource is not IAM Role."]
                     ELSE [kind |-> "getAccountId",
                           fullRoleName |->
                             CompiledFullRoleName(roleResource.Properties)]
       ELSE [kind |-> "resolved", value |-> role]
  ELSE IF "GetAtt" \in DOMAIN role
       THEN [kind |-> "getRole", RoleName |-> role.GetAtt[1]]
       ELSE [kind |-> "throw", message |-> "TypeError"]

AccountIdRequest == [service |-> "STS", operation |-> "getAccountId"]

\* a lookup that names the attribute instead of the resource
GetRoleRequestOfAttribute(name) ==
  [service |-> "IAM", operation |-> "getRole", params |-> [RoleName |-> "Arn"]]

GetRoleRequest(name) ==
  [service |-> "IAM", operation |-> "getRole", params |-> [RoleName |-> name]]

\* `arn:aws:iam::${accountId}:role${compiledFullRoleName}`
RoleArnOf(accountId, compiledFullRoleName) ==
  Chars(<<"arn", ":", "aws", ":", "iam", ":", ":", accountId, ":", "role">>
          \o compiledFullRoleName)

\* normalizeArnRole(role) up to its return, called in the current state
StartRole(role) ==
  LET start == NormalizeArnRoleStart(role)
  IN  /\ roleInput' = role
      /\ roleData' = Undefined
      /\ resolves' = resolves + 1
      /\ CASE start.kind = "throw" ->
                /\ Reject(start.message)
                /\ roleArn' = Undefined
                /\ calls' = calls
           [] start.kind = "resolved" ->
                /\ pc' = "roleResolved"
                /\ error' = ""
                /\ roleArn' = start.value
                /\ calls' = calls
           [] start.kind = "getAccountId" ->
                /\ pc' = "awaitAccountId"
                /\ error' = ""
                /\ roleArn' = Undefined
                /\ calls' = Append(calls, AccountIdRequest)
           [] start.kind = "getRole" ->
                /\ pc' = "awaitGetRole"
                /\ error' = ""
                /\ roleArn' = Undefined
                /\ calls' = Append(calls, GetRoleRequest(start.RoleName))

InitRole ==
  /\ pc = "idle"
  /\ error = ""
  /\ calls = <<>>
  /\ callsBefore = 0
  /\ TemplateUnset
  /\ ConfigUnset
  /\ RoleUnset
  /\ LoaderUnset
  /\ EncryptUnset
  /\ PairUnset
  /\ DeployUnset

\* one invocation of normalizeArnRole
CallNormalizeArnRole ==
  /\ pc \in {"idle", "roleResolved", "rejected"}
  /\ resolves < MaxResolves
  /\ callsBefore' = Len(calls)
  /\ \E role \in RolePool : StartRole(role)
  /\ UNCHANGED <<templateVars, configVars, deployVars>>
  /\ UNCHANGED <<loaderVars, encryptVars, pairVars>>

\* the .then((accountId) => ...) of normalizeArnRole
AccountIdThen ==
  /\ pc = "awaitAccountId"
  /\ \E accountId \in AccountIds :
       roleArn' = RoleArnOf(accountId, NormalizeArnRoleStart(roleInput).fullRoleName)
  /\ pc' = "roleResolved"
  /\ UNCHANGED <<error, calls, callsBefore, templateVars, configVars, roleInput, resolves,
                 roleData, deployVars>>
  /\ UNCHANGED <<loaderVars, encryptVars, pairVars>>

\* the .then((data) => data.Arn) of normalizeArnRole
GetRoleThen ==
  /\ pc = "awaitGetRole"
  /\ \E received \in GetRoleResponses :
       /\ roleData' = received
       /\ roleArn' = Field(received, "Arn")
  /\ pc' = "roleResolved"
  /\ UNCHANGED <<error, calls, callsBefore, templateVars, configVars, roleInput, resolves,
                 deployVars>>
  /\ UNCHANGED <<loaderVars, encryptVars, pairVars>>

\* the provider rejects the role lookup in flight
RoleLookupFails ==
  /\ pc \in {"awaitAccountId", "awaitGetRole"}
  /\ Reject("TransportError")
  /\ UNCHANGED <<calls, callsBefore, templateVars, configVars, roleVars, deployVars>>
  /\ UNCHANGED <<loaderVars, encryptVars, pairVars>>

NextRole ==
  \/ CallNormalizeArnRole
  \/ AccountIdThen
  \/ GetRoleThen
  \/ RoleLookupFails

SpecRole == InitRole /\ [][NextRole]_vars

(***************************************************************************)
(* The desired configuration: function, service and provider objects.      *)
(***************************************************************************)
EnvKeyA == <<"A">>
EnvKeyB == <<"B">>
EnvKeyBad == <<"1", "B", "A", "D">>

EnvObj(map) == [t |-> "object", vars |-> map]

\* the maps that give key A a value of forA and key B a value of forB, or
\* leave them out
EnvMaps(forA, forB) ==
  { [k \in D |-> IF k = EnvKeyA THEN a ELSE b] :
      D \in SUBSET {EnvKeyA, EnvKeyB}, a \in forA, b \in forB }

FunctionEnvironments ==
  { EnvObj(m) : m \in EnvMaps({Str("1"), Placeholder}, {Str("1")}) }
    \cup { EnvObj([k \in {EnvKeyBad} |-> Str("1")]),
           EnvObj([k \in {EnvKeyA, EnvKeyBad} |->
                     IF k = EnvKeyA THEN Placeholder ELSE Str("1")]) }

ProviderEnvironments ==
  { EnvObj(m) : m \in EnvMaps({Str("x"), Placeholder}, {Str("2")}) }
    \cup { EnvObj([k \in {EnvKeyBad} |-> Str("2")]) }

VpcObj(fields) == [t |-> "object", vpc |-> fields]

VpcLists(id) == { Arr(<<Str(id)>>), Arr(<<Str(id), Placeholder>>) }

FunctionVpcs ==
  { VpcObj([f \in D |-> IF f = "securityGroupIds" THEN sg ELSE sn]) :
      D \in SUBSET {"securityGroupIds", "subnetIds"},
      sg \in VpcLists("sg-1"), sn \in VpcLists("subnet-1") }

ProviderVpcs ==
  { VpcObj([securityGroupIds |-> Arr(<<Str("sg-2")>>),
            subnetIds |-> Arr(<<Str("subnet-2")>>)]),
    VpcObj([securityGroupIds |-> Placeholder,
            subnetIds |-> Arr(<<Str("subnet-2"), Placeholder>>)]) }

Setting(level, field, value) == [level |-> level, field |-> field, value |-> value]

\* the values one property of the desired configuration may be given
AllSettings ==
  { Setting("function", "awsKmsKeyArn", v) : v \in {Str("kms-f"), Placeholder} }
    \cup { Setting("service", "awsKmsKeyArn", v) : v \in {Str("kms-s"), Placeholder} }
    \cup { Setting("provider", "awsKmsKeyArn", Str("kms-p")) }
    \cup { Setting("function", "description", v) : v \in {Str("first"), Placeholder} }
    \cup { Setting("provider", "description", Str("every")) }
    \cup { Setting("function", "memorySize", v) : v \in {Num(512), Placeholder} }
    \cup { Setting("provider", "memorySize", v) : v \in {Num(1024), Placeholder} }
    \cup { Setting("function", "timeout", v) : v \in {Num(6), Placeholder} }
    \cup { Setting("provider", "timeout", v) : v \in {Num(30), Placeholder} }
    \cup { Setting("function", "onError", v) :
             v \in {Str("arn:sns:dlq"), Str(""), Placeholder} }
    \cup { Setting("provider", "onError", Str("arn:sns:every")) }
    \cup { Setting("function", "environment", v) : v \in FunctionEnvironments }
    \cup { Setting("provider", "environment", v) : v \in ProviderEnvironments }
    \cup { Setting("function", "vpc", v) : v \in FunctionVpcs }
    \cup { Setting("provider", "vpc", v) : v \in ProviderVpcs }
    \cup { Setting("function", "role", v) : v \in RoleStrings \cup {GetAtt("DeployRole")} }
    \cup { Setting("provider", "role", v) :
             v \in {LiteralArn("audit"), Chars(<<"RunRole">>), GetAtt("RunRole")} }

RECURSIVE SettingsUpTo(_)
\* the sets of at most k settings, no property given twice
SettingsUpTo(k) ==
  IF k = 0 THEN {{}}
  ELSE LET smaller == SettingsUpTo(k - 1)
       IN  smaller \cup
             UNION { { S \cup {x} :
                         x \in { y \in AllSettings :
                                  \A z \in S : z.level # y.level \/ z.field # y.field } } :
                     S \in smaller }

\* the object of one level: its base properties and the settings of the level
ObjectOf(level, settings, base) ==
  LET mine == { x \in settings : x.level = level }
  IN  [f \in DOMAIN base \cup { x.field : x \in mine } |->
         IF \E x \in mine : x.field = f
         THEN (CHOOSE x \in mine : x.field = f).value
         ELSE base[f]]

(***************************************************************************)
(* The configuration update, updateFunctionConfiguration.                  *)
(***************************************************************************)
UpperCase ==
  {"A", "B", "C", "D", "E", "F", "G", "H", "I", "J", "K", "L", "M",
   "N", "O", "P", "Q", "R", "S", "T", "U", "V", "W", "X", "Y", "Z"}

LowerCase ==
  {"a", "b", "c", "d", "e", "f", "g", "h", "i", "j", "k", "l", "m",
   "n", "o", "p", "q", "r", "s", "t", "u", "v", "w", "x", "y", "z"}

\* a key test that also lets a leading digit through
MatchesAnyWord(key) ==
  /\ key # <<>>
  /\ \A i \in 1..Len(key) : key[i] \in UpperCase \cup LowerCase \cup Digits \cup {"_"}

\* key.match(/^[A-Za-z_][a-zA-Z0-9_]*$/)
MatchesEnvKeyPattern(key) ==
  /\ key # <<>>
  /\ key[1] \in UpperCase \cup LowerCase \cup {"_"}
  /\ \A i \in 2..Len(key) : key[i] \in UpperCase \cup LowerCase \cup Digits \cup {"_"}

\* a test that takes any value of the property, a placeholder included
HasProperty(obj, f) == f \in DOMAIN obj

\* 'f' in obj && !_.isObject(obj.f)
HasPlain(obj, f) == f \in DOMAIN obj /\ ~ IsObject(obj[f])

\* a choice that prefers the fallback's plain value to the function's
PlainOfFallbackFirst(obj, fallback, f) ==
  IF fallback # Undefined /\ HasPlain(fallback, f) THEN fallback[f]
  ELSE IF HasPlain(obj, f) THEN obj[f]
  ELSE Absent

\* the function-level value if it is plain, else the fallback's if it is plain
PlainOf(obj, fallback, f) ==
  IF HasPlain(obj, f) THEN obj[f]
  ELSE IF fallback # Undefined /\ HasPlain(fallback, f) THEN fallback[f]
  ELSE Absent

\* params.Description: function level only
DescriptionOf(obj) == IF HasPlain(obj, "description") THEN obj.description ELSE Absent

\* a dead-letter target that falls back to the provider's
DeadLetterConfigWithDefault(obj) ==
  IF Truthy(Field(obj, "onError")) /\ ~ IsObject(obj.onError)
  THEN [TargetArn |-> obj.onError]
  ELSE IF Truthy(Field(providerObj, "onError")) /\ ~ IsObject(providerObj.onError)
  THEN [TargetArn |-> providerObj.onError]
  ELSE Absent

\* params.DeadLetterConfig: function level only, a truthy plain value
DeadLetterConfigOf(obj) ==
  IF Truthy(Field(obj, "onError")) /\ ~ IsObject(obj.onError)
  THEN [TargetArn |-> obj.onError] ELSE Absent

\* the variables of an environment property, none when it is not set
VarsOf(obj) ==
  IF "environment" \in DOMAIN obj /\ "vars" \in DOMAIN obj.environment
  THEN obj.environment.vars ELSE <<>>

\* a merge in which the provider's value wins on a key of both
AssignProviderLast(providerVars, functionVars) ==
  [k \in DOMAIN providerVars \cup DOMAIN functionVars |->
     IF k \in DOMAIN providerVars THEN providerVars[k] ELSE functionVars[k]]

\* Object.assign({}, providerObj.environment, functionObj.environment)
AssignVariables(providerVars, functionVars) ==
  [k \in DOMAIN providerVars \cup DOMAIN functionVars |->
     IF k \in DOMAIN functionVars THEN functionVars[k] ELSE providerVars[k]]

\* functionObj.environment || providerObj.environment
HasEnvironment(fn, prov) ==
  Truthy(Field(fn, "environment")) \/ Truthy(Field(prov, "environment"))

MergedVariables(fn, prov) == AssignVariables(VarsOf(prov), VarsOf(fn))

\* a test that finds a placeholder only when every value is one
EveryValueIsObject(variables) ==
  variables # <<>> /\ \A k \in DOMAIN variables : IsObject(variables[k])

\* _.some(params.Environment.Variables, value => _.isObject(value))
SomeObject(variables) == \E k \in DOMAIN variables : IsObject(variables[k])

\* the environment block throws 'Invalid characters in environment variable'
EnvironmentThrows(fn, prov) ==
  /\ HasEnvironment(fn, prov)
  /\ ~ SomeObject(MergedVariables(fn, prov))
  /\ \E k \in DOMAIN MergedVariables(fn, prov) : ~ MatchesEnvKeyPattern(k)

\* params.Environment after the environment block
EnvironmentOf(fn, prov) ==
  IF HasEnvironment(fn, prov) /\ ~ SomeObject(MergedVariables(fn, prov))
  THEN [Variables |-> MergedVariables(fn, prov)] ELSE Absent

\* _.isArray(list) && !_.some(list, _.isObject)
PlainArray(list) ==
  list.t = "array" /\ \A i \in 1..Len(list.items) : ~ IsObject(list.items[i])

\* params.VpcConfig after the vpc block
VpcConfigOf(fn, prov) ==
  IF Truthy(Field(fn, "vpc")) \/ Truthy(Field(prov, "vpc"))
  THEN LET vpc == (IF Truthy(Field(fn, "vpc")) THEN fn.vpc ELSE prov.vpc).vpc
           kept == { f \in {"securityGroupIds", "subnetIds"} :
                       PlainArray(Field(vpc, f)) }
       IN  IF kept = {} THEN Absent
           ELSE [f \in { IF g = "securityGroupIds" THEN "SecurityGroupIds"
                         ELSE "SubnetIds" : g \in kept } |->
                   IF f = "SecurityGroupIds" THEN vpc.securityGroupIds
                   ELSE vpc.subnetIds]
  ELSE Absent

\* the properties of an object literal that are not absent
Compact(entries) ==
  [f \in { g \in DOMAIN entries : entries[g] # Absent } |-> entries[f]]

\* params as updateFunctionConfiguration has built it before the role branch
BuildParams(fn, svc, prov) ==
  Compact([FunctionName |-> Str(fn.name),
           KMSKeyArn |-> PlainOf(fn, svc, "awsKmsKeyArn"),
           Description |-> DescriptionOf(fn),
           MemorySize |-> PlainOf(fn, prov, "memorySize"),
           Timeout |-> PlainOf(fn, prov, "timeout"),
           DeadLetterConfig |-> DeadLetterConfigOf(fn),
           Environment |-> EnvironmentOf(fn, prov),
           VpcConfig |-> VpcConfigOf(fn, prov)])

\* a role branch that finds no role to resolve
RoleToResolveNone(fn, prov) == Absent

\* the role the role branch resolves: function level first, then provider
RoleToResolve(fn, prov) == PlainOf(fn, prov, "role")

\* a test that never finds the patch empty
IsEmptyNever(patch) == FALSE

\* _.isEmpty(_.omit(params, 'FunctionName'))
IsEmptyOmitName(patch) == DOMAIN patch \ {"FunctionName"} = {}

UpdateRequest(patch) ==
  [service |-> "Lambda", operation |-> "updateFunctionConfiguration", params |-> patch]

InitConfig ==
  /\ pc = "idle"
  /\ error = ""
  /\ calls = <<>>
  /\ callsBefore = 0
  /\ TemplateUnset
  /\ RoleUnset
  /\ LoaderUnset
  /\ EncryptUnset
  /\ PairUnset
  /\ DeployUnset
  /\ params = Undefined
  /\ \E settings \in SettingsUpTo(MaxFields) :
       /\ functionObj = ObjectOf("function", settings, [name |-> FunctionName])
       /\ providerObj = ObjectOf("provider", settings, [name |-> "aws"])
       /\ IF \E x \in settings : x.level = "service"
          THEN serviceObj = ObjectOf("service", settings, [service |-> Service])
          ELSE serviceObj \in {Undefined, [service |-> Service]}

\* updateFunctionConfiguration up to its return
UpdateFunctionConfiguration ==
  /\ pc = "idle"
  /\ callsBefore' = Len(calls)
  /\ IF EnvironmentThrows(functionObj, providerObj)
     THEN /\ Reject("Invalid characters in environment variable")
          /\ UNCHANGED <<calls, params, roleVars>>
     ELSE LET built == BuildParams(functionObj, serviceObj, providerObj)
              role == RoleToResolve(functionObj, providerObj)
          IN  IF role # Absent
              THEN /\ StartRole(role)
                   /\ params' = IF NormalizeArnRoleStart(role).kind = "throw"
                                THEN Undefined ELSE built
              ELSE /\ params' = built
                   /\ error' = ""
                   /\ UNCHANGED roleVars
                   /\ IF IsEmptyOmitName(built)
                      THEN pc' = "done" /\ calls' = calls
                      ELSE pc' = "updating" /\ calls' = Append(calls, UpdateRequest(built))
  /\ UNCHANGED <<templateVars, functionObj, serviceObj, providerObj, deployVars>>
  /\ UNCHANGED <<loaderVars, encryptVars, pairVars>>

\* the .then(roleArn => ...) of the role branch
RoleThen ==
  /\ pc = "roleResolved"
  /\ params # Undefined
  /\ params' = [f \in DOMAIN params \cup {"Role"} |->
                  IF f = "Role" THEN roleArn ELSE params[f]]
  /\ calls' = Append(calls, UpdateRequest(params'))
  /\ pc' = "updating"
  /\ UNCHANGED <<error, callsBefore, templateVars, functionObj, serviceObj, providerObj,
                 roleVars, deployVars>>
  /\ UNCHANGED <<loaderVars, encryptVars, pairVars>>

\* the .then(() => log) of callUpdateFunctionConfiguration
UpdateThen ==
  /\ pc = "updating"
  /\ pc' = "done"
  /\ UNCHANGED <<error, calls, callsBefore, templateVars, configVars, roleVars, deployVars>>
  /\ UNCHANGED <<loaderVars, encryptVars, pairVars>>

\* the provider rejects the update request in flight
UpdateFails ==
  /\ pc = "updating"
  /\ Reject("TransportError")
  /\ UNCHANGED <<calls, callsBefore, templateVars, configVars, roleVars, deployVars>>
  /\ UNCHANGED <<loaderVars, encryptVars, pairVars>>

NextConfig ==
  \/ UpdateFunctionConfiguration
  \/ AccountIdThen
  \/ RoleLookupFails
  \/ RoleThen
  \/ UpdateThen
  \/ UpdateFails

SpecConfig == InitConfig /\ [][NextConfig]_vars

(***************************************************************************)
(* The code upload, deployFunction.                                        *)
(***************************************************************************)
\* the file at artifactFilePath: its bytes, or no file
Artifacts ==
  { [exists |-> TRUE, data |-> d] : d \in {"zipA", "zipB"} } \cup { [exists |-> FALSE] }

\* crypto.createHash('sha256').update(data).digest('base64')
Sha256Base64(data) ==
  CASE data = "zipA" -> "hashA="
    [] data = "zipB" -> "hashB="
    [] OTHER -> "hashEmpty="

\* a read that yields an empty buffer for a missing file
ReadFileSyncOrEmpty(file) == [ok |-> TRUE, data |-> IF file.exists THEN file.data ELSE ""]

\* fs.readFileSync(artifactFilePath): the bytes, or the ENOENT it throws
ReadFileSync(file) ==
  IF file.exists THEN [ok |-> TRUE, data |-> file.data] ELSE [ok |-> FALSE, code |-> "ENOENT"]

RemoteHashes == {"hashA=", "hashB=", "hashOld="}

ForceOptions == {Undefined, Bool(FALSE), Bool(TRUE)}

\* a gate that skips on an equal hash whatever the force option
SkipsUploadIgnoringForce(remoteHash, localHash, forceOption) == remoteHash = localHash

\* remoteHash === localHash && !this.options.force
SkipsUpload(remoteHash, localHash, forceOption) ==
  remoteHash = localHash /\ ~ Truthy(forceOption)

UpdateCodeRequest(data) ==
  [service |-> "Lambda", operation |-> "updateFunctionCode",
   params |-> [FunctionName |-> FunctionName, ZipFile |-> data]]

\* the record of one finished deployFunction
SyncRecord(outcome, localHash, requests) ==
  [outcome |-> outcome,
   found |-> artifact.exists,
   localHash |-> localHash,
   remoteHash |-> remoteFunctionData.Configuration.CodeSha256,
   force |-> Truthy(force),
   requests |-> requests]

InitDeploy ==
  /\ pc = "idle"
  /\ error = ""
  /\ calls = <<>>
  /\ callsBefore = 0
  /\ TemplateUnset
  /\ ConfigUnset
  /\ RoleUnset
  /\ LoaderUnset
  /\ EncryptUnset
  /\ PairUnset
  /\ artifact \in Artifacts
  /\ force \in ForceOptions
  /\ remoteFunctionData \in { RemoteFunctionData(h) : h \in RemoteHashes }
  /\ syncs = <<>>

\* the hook 'deploy:function:packageFunction' builds the artifact anew
PackageFunction ==
  /\ pc \in {"idle", "done", "rejected"}
  /\ Len(syncs) < MaxSyncs
  /\ artifact' \in Artifacts \ {artifact}
  /\ UNCHANGED <<pc, error, calls, callsBefore, templateVars, configVars, roleVars,
                 force, remoteFunctionData, syncs>>
  /\ UNCHANGED <<loaderVars, encryptVars, pairVars>>

\* deployFunction up to its return
DeployFunction ==
  /\ pc \in {"idle", "done", "rejected"}
  /\ Len(syncs) < MaxSyncs
  /\ callsBefore' = Len(calls)
  /\ IF ~ ReadFileSync(artifact).ok
     THEN /\ Reject(ReadFileSync(artifact).code)
          /\ calls' = calls
          /\ syncs' = Append(syncs, SyncRecord("Failed", "none", 0))
     ELSE LET data == ReadFileSync(artifact).data
              remoteHash == remoteFunctionData.Configuration.CodeSha256
              localHash == Sha256Base64(data)
          IN  IF SkipsUpload(remoteHash, localHash, force)
              THEN /\ pc' = "done"
                   /\ error' = ""
                   /\ calls' = calls
                   /\ syncs' = Append(syncs, SyncRecord("Skipped", localHash, 0))
              ELSE /\ pc' = "uploading"
                   /\ error' = ""
                   /\ calls' = Append(calls, UpdateCodeRequest(data))
                   /\ syncs' = syncs
  /\ UNCHANGED <<templateVars, configVars, roleVars, artifact, force, remoteFunctionData>>
  /\ UNCHANGED <<loaderVars, encryptVars, pairVars>>

\* the .then(() => log) of deployFunction
UpdateCodeThen ==
  /\ pc = "uploading"
  /\ pc' = "done"
  /\ syncs' = Append(syncs, SyncRecord("Uploaded", Sha256Base64(ReadFileSync(artifact).data),
                                     Len(calls) - callsBefore))
  /\ UNCHANGED <<error, calls, callsBefore, templateVars, configVars, roleVars,
                 artifact, force, remoteFunctionData>>
  /\ UNCHANGED <<loaderVars, encryptVars, pairVars>>

\* the provider rejects the upload in flight
UpdateCodeFails ==
  /\ pc = "uploading"
  /\ Reject("TransportError")
  /\ syncs' = Append(syncs, SyncRecord("Failed", Sha256Base64(ReadFileSync(artifact).data),
                                     Len(calls) - callsBefore))
  /\ UNCHANGED <<calls, callsBefore, templateVars, configVars, roleVars,
                 artifact, force, remoteFunctionData>>
  /\ UNCHANGED <<loaderVars, encryptVars, pairVars>>

NextDeploy ==
  \/ PackageFunction
  \/ DeployFunction
  \/ UpdateCodeThen
  \/ UpdateCodeFails

SpecDeploy == InitDeploy /\ [][NextDeploy]_vars

(***************************************************************************)
(* The 'deploy:function:deploy' hook: the internal lifecycle                *)
(* aws:deploy:function, whose only event is downloadTemplate, and then the *)
(* cleanup.                                                                *)
(***************************************************************************)
\* .then(() => this.serverless.pluginManager.spawn('aws:common:cleanupTempDir'))
CleanupTempDir ==
  /\ pc = "done"
  /\ pc' = "cleaned"
  /\ UNCHANGED <<error, calls, callsBefore, templateVars, configVars, roleVars,
                 deployVars>>
  /\ UNCHANGED <<loaderVars, encryptVars, pairVars>>

NextRun ==
  \/ NextLocate
  \/ NextFetch
  \/ CleanupTempDir

SpecRun == InitLocate /\ [][NextRun]_vars

(***************************************************************************)
(* YamlParser.parse: two invocations in progress in one process.           *)
(***************************************************************************)
InitLoad ==
  /\ pc = "idle"
  /\ error = ""
  /\ calls = <<>>
  /\ callsBefore = 0
  /\ TemplateUnset
  /\ ConfigUnset
  /\ RoleUnset
  /\ LoaderUnset
  /\ EncryptUnset
  /\ PairUnset
  /\ DeployUnset

NotLoading ==
  UNCHANGED <<pc, error, calls, callsBefore, templateVars, configVars, roleVars,
              deployVars, encryptVars, pairVars>>

\* parse(yamlFilePath) up to its return: chdir, read the root, start resolve
Parse(i) ==
  /\ loader[i].state = "idle"
  /\ \E yamlFilePath \in RootPaths :
       /\ cwd' = ParentDir(yamlFilePath)
       /\ loader' =
            [loader EXCEPT ![i] =
               IF yamlFilePath \in DOMAIN Files
               THEN [state |-> "resolving", root |-> yamlFilePath,
                     tree |-> YamlLoad(Files[yamlFilePath]), bases |-> {}]
               ELSE [state |-> "failed", root |-> yamlFilePath,
                     tree |-> {}, bases |-> {}]]
  /\ NotLoading

\* resolve loads one relative reference: no base is handed to resolve, so the
\* location is taken relative to the working directory at the time of the load
LoadRelative(i) ==
  /\ loader[i].state = "resolving"
  /\ \E node \in Pending(loader[i].tree) :
       /\ RefType(node[2].ref) = "relative"
       /\ LET location == cwd \o node[2].ref
          IN  loader' =
                [loader EXCEPT ![i] =
                   IF location \in DOMAIN Files
                   THEN [@ EXCEPT !.tree = Splice(@, node, YamlLoad(Files[location])),
                                  !.bases = @ \cup {cwd}]
                   ELSE [@ EXCEPT !.state = "failed", !.bases = @ \cup {cwd}]]
  /\ UNCHANGED cwd
  /\ NotLoading

\* resolve loads one remote reference
LoadRemote(i) ==
  /\ loader[i].state = "resolving"
  /\ \E node \in Pending(loader[i].tree) :
       /\ RefType(node[2].ref) = "remote"
       /\ loader' =
            [loader EXCEPT ![i] =
               IF node[2].ref \in DOMAIN Remotes
               THEN [@ EXCEPT !.tree = Splice(@, node, YamlLoad(Remotes[node[2].ref]))]
               ELSE [@ EXCEPT !.state = "failed"]]
  /\ UNCHANGED cwd
  /\ NotLoading

\* .then((res) => (res.resolved))
ResolvedThen(i) ==
  /\ loader[i].state = "resolving"
  /\ Pending(loader[i].tree) = {}
  /\ loader' = [loader EXCEPT ![i].state = "done"]
  /\ UNCHANGED cwd
  /\ NotLoading

NextLoad ==
  \E i \in Invocations :
    \/ Parse(i)
    \/ LoadRelative(i)
    \/ LoadRemote(i)
    \/ ResolvedThen(i)

SpecLoad == InitLoad /\ [][NextLoad]_vars

(***************************************************************************)
(* setServersideS3EncryptionOptions, called with a params object of the    *)
(* caller under a deployment bucket configuration.                         *)
(***************************************************************************)
InitEncrypt ==
  /\ pc = "idle"
  /\ error = ""
  /\ calls = <<>>
  /\ callsBefore = 0
  /\ TemplateUnset
  /\ functionObj = [name |-> FunctionName]
  /\ serviceObj = Undefined
  /\ providerObj \in
       { [name |-> "aws"] } \cup
         { [name |-> "aws", deploymentBucketObject |-> b] : b \in BucketObjects }
  /\ params = Undefined
  /\ RoleUnset
  /\ LoaderUnset
  /\ s3Given \in S3ParamsPool
  /\ s3Params = s3Given
  /\ s3Request = Undefined
  /\ PairUnset
  /\ DeployUnset

\* one call of setServersideS3EncryptionOptions(params)
CallSetServersideS3EncryptionOptions ==
  /\ pc = "idle"
  /\ LET result == SetServersideS3EncryptionOptions(
                     s3Params, Field(providerObj, "deploymentBucketObject"))
     IN  /\ s3Request' = result.clonedParams
         /\ s3Params' = result.params
  /\ pc' = "done"
  /\ UNCHANGED <<error, calls, callsBefore, templateVars, configVars, roleVars, deployVars,
                 loaderVars, s3Given, pairVars>>

NextEncrypt == CallSetServersideS3EncryptionOptions

SpecEncrypt == InitEncrypt /\ [][NextEncrypt]_vars

(***************************************************************************)
(* The downloadTemplate hooks of two plugin instances, interleaved.        *)
(***************************************************************************)
InitPair ==
  /\ pc = "idle"
  /\ error = ""
  /\ calls = <<>>
  /\ callsBefore = 0
  /\ TemplateUnset
  /\ ConfigUnset
  /\ RoleUnset
  /\ LoaderUnset
  /\ EncryptUnset
  /\ PairUnset
  /\ DeployUnset

NotPairing ==
  UNCHANGED <<pc, error, calls, callsBefore, templateVars, configVars, roleVars,
              deployVars, loaderVars, encryptVars>>

\* searchLatest(0) of instance i: its first listing request
RunSearchLatest(i) ==
  /\ runs[i].pc = "idle"
  /\ runs' = [runs EXCEPT ![i].pc = "listing"]
  /\ UNCHANGED directories
  /\ NotPairing

\* the .then(result => ...) of searchLatest in instance i
RunSearchLatestThen(i) ==
  /\ runs[i].pc = "listing"
  /\ \E result \in PairResults(i) :
       /\ GetTruncated(result) => runs[i].pages + 1 < MaxPages
       /\ runs' = [runs EXCEPT
                     ![i].current = LatestOfPage(result, runs[i].current),
                     ![i].pages = @ + 1,
                     ![i].pc = IF GetTruncated(result) THEN "listing" ELSE "searched"]
  /\ UNCHANGED directories
  /\ NotPairing

\* the .then(time => ...) after searchLatest(0) in instance i
RunLocateThen(i) ==
  /\ runs[i].pc = "searched"
  /\ IF NoDeployment(runs[i].current)
     THEN /\ runs' = [runs EXCEPT ![i].pc = "rejected"]
          /\ UNCHANGED directories
     ELSE /\ runs' = [runs EXCEPT ![i].pc = "located"]
          /\ directories' =
               [directories EXCEPT
                  ![DirectoryCell(i)] = Chars(DirectoryIn(StageOf(i), runs[i].current))]
  /\ NotPairing

\* downloadTemplateFromS3 of instance i up to its getObject request
RunDownloadTemplateFromS3(i) ==
  /\ runs[i].pc = "located"
  /\ runs' = [runs EXCEPT
                ![i].pc = "getting",
                ![i].key = GetObjectRequest(directories[DirectoryCell(i)].chars).params.Key]
  /\ UNCHANGED directories
  /\ NotPairing

\* the continuations of downloadTemplateFromS3 in instance i
RunGetObjectThen(i) ==
  /\ runs[i].pc = "getting"
  /\ \E outcome \in {"done", "rejected"} : runs' = [runs EXCEPT ![i].pc = outcome]
  /\ UNCHANGED directories
  /\ NotPairing

NextPair ==
  \E i \in Runs :
    \/ RunSearchLatest(i)
    \/ RunSearchLatestThen(i)
    \/ RunLocateThen(i)
    \/ RunDownloadTemplateFromS3(i)
    \/ RunGetObjectThen(i)

SpecPair == InitPair /\ [][NextPair]_vars

(***************************************************************************)
(* Properties of the deployment locator.                                   *)
(***************************************************************************)
NoPriorDeployment == "Could not find a previous service deployment"

\* the keys of a set that the locator's pattern matches
MatchingKeys(keys) == { k \in keys : ParsedTime(k) # <<>> }

\* the maximum timestamp over the matching keys of a set, 0 when there is none
GlobalMaximum(keys) ==
  SetMax({ ToInteger(ParsedTime(k)) : k \in MatchingKeys(keys) } \cup {0})

\* C1: once the last (untruncated) page has been processed, the timestamp the
\* locator holds is the maximum over the matching entries of all pages
\* received, and the directory it records is the one of that maximum.
C1_GlobalMaximumOverAllPages ==
  /\ pc \in {"searched", "located"} => current = GlobalMaximum(listed)
  /\ pc = "located" =>
       lastDeploymentDirectory = Chars(DirectoryOf(GlobalMaximum(listed)))

\* C1 witness: a deployment located over several pages whose maximum is not
\* on the last page, although the last page has timestamps of its own.
C1_Witness ==
  /\ pc = "located"
  /\ pages >= 2
  /\ GlobalMaximum(lastPage) > 0
  /\ GlobalMaximum(lastPage) < current

\* the listing has been received up to its untruncated page and the locator
\* has finished
LocateFinished == pc \in {"located", "rejected"} /\ error # "TransportError"

\* C2: a finished locate whose pages held no matching entry is rejected with
\* 'Could not find a previous service deployment' and records no directory.
C2_NoPriorDeployment ==
  (LocateFinished /\ MatchingKeys(listed) = {}) =>
    /\ pc = "rejected"
    /\ error = NoPriorDeployment
    /\ lastDeploymentDirectory = Undefined

\* C2 witness: a rejected locate over several pages that held entries, none
\* of them matching.
C2_Witness ==
  /\ pc = "rejected"
  /\ error = NoPriorDeployment
  /\ pages >= 2
  /\ listed # {}
  /\ MatchingKeys(listed) = {}

(***************************************************************************)
(* Properties of the template download.                                    *)
(***************************************************************************)
IntegrityError == "Could not retrieve CF template from S3"

WrongContentType(r) == "ContentType" \notin DOMAIN r \/ r.ContentType # "application/json"

NoPositiveLength(r) == "ContentLength" \notin DOMAIN r \/ r.ContentLength <= 0

NoBody(r) == "Body" \notin DOMAIN r \/ r.Body.t = "null"

\* C3: a getObject response with a wrong content type, a length that is
\* absent, zero or negative, or no body is rejected and leaves no template,
\* fingerprint or body text behind; the body is handed on to the parser only
\* when none of the three holds.
C3_IntegrityGate ==
  response # Undefined =>
    /\ (WrongContentType(response) \/ NoPositiveLength(response) \/ NoBody(response)) =>
         /\ pc = "rejected"
         /\ error = IntegrityError
         /\ template = Undefined
         /\ templateHash = Undefined
         /\ chain = Undefined
    /\ pc \in {"gated", "parsed", "done"} =>
         /\ ~ WrongContentType(response)
         /\ ~ NoPositiveLength(response)
         /\ ~ NoBody(response)
    /\ pc = "done" => template = JsonParse(response.Body.v).value

\* C3 witness: a response of the right type with a body, rejected for its
\* zero length.
C3_Witness ==
  /\ pc = "rejected"
  /\ response # Undefined
  /\ ~ WrongContentType(response)
  /\ ~ NoBody(response)
  /\ "ContentLength" \in DOMAIN response
  /\ response.ContentLength = 0

(***************************************************************************)
(* Properties of the code upload.                                          *)
(***************************************************************************)
RECURSIVE SumRequests(_)
SumRequests(records) ==
  IF records = <<>> THEN 0 ELSE Head(records).requests + SumRequests(Tail(records))

\* C4: a deployFunction whose artifact hashes to the remote CodeSha256, with
\* force not set, ends Skipped without a request; any other one (hash
\* differs, or force set) issues exactly one updateFunctionCode request; the
\* requests logged are exactly those; and of two consecutive runs with the
\* same artifact and descriptor and no force, a Skipped first one is followed
\* by a Skipped second one.
C4_ContentHashGate ==
  /\ \A i \in 1..Len(syncs) :
       syncs[i].localHash # "none" =>
         IF syncs[i].localHash = syncs[i].remoteHash /\ ~ syncs[i].force
         THEN syncs[i].outcome = "Skipped" /\ syncs[i].requests = 0
         ELSE syncs[i].outcome \in {"Uploaded", "Failed"} /\ syncs[i].requests = 1
  /\ Len(calls) = SumRequests(syncs) + (IF pc = "uploading" THEN 1 ELSE 0)
  /\ \A i \in 1..Len(calls) : calls[i].operation = "updateFunctionCode"
  /\ \A i \in 1..(Len(syncs) - 1) :
       (/\ syncs[i].outcome = "Skipped"
        /\ syncs[i + 1].localHash = syncs[i].localHash
        /\ syncs[i + 1].remoteHash = syncs[i].remoteHash
        /\ ~ syncs[i + 1].force) => syncs[i + 1].outcome = "Skipped"

\* C4 witness: two consecutive runs on the same unchanged artifact, both
\* Skipped, no request issued.
C4_Witness ==
  /\ Len(syncs) = 2
  /\ syncs[1].outcome = "Skipped"
  /\ syncs[2].outcome = "Skipped"
  /\ syncs[1].localHash = syncs[2].localHash
  /\ calls = <<>>
  /\ pc = "done"

(***************************************************************************)
(* Properties of the configuration update.                                 *)
(***************************************************************************)
UpdateCalls ==
  Cardinality({ i \in 1..Len(calls) :
                  calls[i].operation = "updateFunctionConfiguration" })

OnlyFunctionName(patch) == DOMAIN patch = {"FunctionName"}

\* C5: a completed updateFunctionConfiguration has issued exactly one update
\* request when its patch holds a field besides FunctionName, and no request
\* at all (ending resolved) when the patch holds FunctionName only; an update
\* request is never issued twice nor for a patch of FunctionName alone, and
\* it carries the patch.
C5_OneUpdateOrNone ==
  /\ pc = "done" =>
       /\ params # Undefined
       /\ error = ""
       /\ IF OnlyFunctionName(params) THEN calls = <<>> ELSE UpdateCalls = 1
  /\ pc = "updating" =>
       /\ UpdateCalls = 1
       /\ ~ OnlyFunctionName(params)
       /\ calls[Len(calls)] = UpdateRequest(params)
  /\ UpdateCalls <= 1
  /\ UpdateCalls = 1 => ~ OnlyFunctionName(params)

\* C5 witness: a no-op update: properties were given, but only placeholders,
\* so the patch is FunctionName alone and nothing was requested.
C5_Witness ==
  /\ pc = "done"
  /\ OnlyFunctionName(params)
  /\ calls = <<>>
  /\ "memorySize" \in DOMAIN functionObj
  /\ "timeout" \in DOMAIN providerObj

\* the desired value of a property: the function's, else the fallback's
Desired(f, fallback) ==
  IF f \in DOMAIN functionObj THEN functionObj[f]
  ELSE IF fallback # Undefined /\ f \in DOMAIN fallback THEN fallback[f]
  ELSE Absent

\* every property the desired configuration sets has the value the remote
\* descriptor holds
DesiredMatchesRemote ==
  LET remote == remoteFunctionData.Configuration
  IN  /\ Desired("awsKmsKeyArn", serviceObj) \in {Absent, remote.KMSKeyArn}
      /\ Desired("description", Undefined) \in {Absent, remote.Description}
      /\ Desired("memorySize", providerObj) \in {Absent, remote.MemorySize}
      /\ Desired("timeout", providerObj) \in {Absent, remote.Timeout}
      /\ Desired("role", providerObj) \in {Absent, remote.Role}
      /\ Desired("onError", Undefined) = Absent
      /\ Desired("environment", providerObj) = Absent
      /\ Desired("vpc", providerObj) = Absent

\* C6 as stated: when the desired configuration equals the remote descriptor
\* on every field, the patch is empty and no remote call is issued.
C6_AsStated ==
  (pc \in {"updating", "done"} /\ DesiredMatchesRemote) =>
    (OnlyFunctionName(params) /\ calls = <<>>)

\* no property is set at function, provider or service level
NothingSet ==
  /\ DOMAIN functionObj = {"name"}
  /\ DOMAIN providerObj = {"name"}
  /\ serviceObj # Undefined => DOMAIN serviceObj = {"service"}

PatchName(f) ==
  CASE f = "awsKmsKeyArn" -> "KMSKeyArn"
    [] f = "description" -> "Description"
    [] f = "memorySize" -> "MemorySize"
    [] f = "timeout" -> "Timeout"

\* C6 amended: the remote descriptor is not consulted. When no property is
\* set at any level the update ends with an empty patch and no remote call;
\* a concrete function-level key reference, description, memory size or
\* timeout is in the patch whatever the remote descriptor holds.
C6_EmptyOnlyWhenNothingSet ==
  /\ (pc # "idle" /\ NothingSet) =>
       /\ pc = "done"
       /\ OnlyFunctionName(params)
       /\ calls = <<>>
  /\ (pc # "idle" /\ params # Undefined) =>
       \A f \in {"awsKmsKeyArn", "description", "memorySize", "timeout"} :
         (f \in DOMAIN functionObj /\ functionObj[f].t \in {"string", "number"}) =>
           /\ PatchName(f) \in DOMAIN params
           /\ params[PatchName(f)] = functionObj[f]

\* C6 witness: a function-level memory size equal to the remote one, above a
\* different provider default, sent in the one update request.
C6_Witness ==
  /\ pc = "done"
  /\ DesiredMatchesRemote
  /\ "memorySize" \in DOMAIN functionObj
  /\ "memorySize" \in DOMAIN providerObj
  /\ UpdateCalls = 1
  /\ params.MemorySize = remoteFunctionData.Configuration.MemorySize

InvalidEnvironmentKey == "Invalid characters in environment variable"

WordTokens == UpperCase \cup LowerCase \cup Digits \cup {"_"}

\* the key is no identifier: empty, a leading digit, or a foreign character
NotAnIdentifier(key) ==
  \/ key = <<>>
  \/ key[1] \in Digits
  \/ \E i \in 1..Len(key) : key[i] \notin WordTokens

\* the keys of the merged environment, and the value each is given
DesiredKeys == DOMAIN VarsOf(providerObj) \cup DOMAIN VarsOf(functionObj)

DesiredVariable(k) ==
  IF k \in DOMAIN VarsOf(functionObj) THEN VarsOf(functionObj)[k]
  ELSE VarsOf(providerObj)[k]

SomePlaceholderVariable == \E k \in DesiredKeys : DesiredVariable(k).t = "object"

\* C7 as stated: whenever a merged key is no identifier, the update fails with
\* the invalid-key error and no remote call has been issued.
C7_AsStated ==
  (pc # "idle" /\ \E k \in DesiredKeys : NotAnIdentifier(k)) =>
    (pc = "rejected" /\ error = InvalidEnvironmentKey /\ calls = <<>>)

\* C7 amended: whenever a merged key is no identifier and no merged value is
\* a structured placeholder, the update fails with the invalid-key error, no
\* remote call (role lookup or update) has been issued and no patch is left.
C7_InvalidKeyFailsFast ==
  (/\ pc # "idle"
   /\ \E k \in DesiredKeys : NotAnIdentifier(k)
   /\ ~ SomePlaceholderVariable) =>
    /\ pc = "rejected"
    /\ error = InvalidEnvironmentKey
    /\ calls = <<>>
    /\ params = Undefined

\* C7 witness: the provider's environment has the key 1BAD and the function
\* has a role that would need a lookup; the update is rejected, nothing sent.
C7_Witness ==
  /\ pc = "rejected"
  /\ error = InvalidEnvironmentKey
  /\ EnvKeyBad \in DOMAIN VarsOf(providerObj)
  /\ "role" \in DOMAIN functionObj
  /\ functionObj.role = Chars(<<"DeployRole">>)
  /\ calls = <<>>

\* C8: when every merged value is concrete, the patch's Environment.Variables
\* has the keys of both maps, with the function's value on the function's
\* keys and the provider's value on the others.
C8_EnvironmentMerge ==
  (/\ params # Undefined
   /\ "environment" \in DOMAIN functionObj \/ "environment" \in DOMAIN providerObj
   /\ ~ SomePlaceholderVariable) =>
    /\ "Environment" \in DOMAIN params
    /\ DOMAIN params.Environment.Variables = DesiredKeys
    /\ \A k \in DOMAIN VarsOf(functionObj) :
         params.Environment.Variables[k] = VarsOf(functionObj)[k]
    /\ \A k \in DOMAIN VarsOf(providerObj) \ DOMAIN VarsOf(functionObj) :
         params.Environment.Variables[k] = VarsOf(providerObj)[k]

\* C8 witness: function {A: 1} over provider {A: x, B: 2} gives {A: 1, B: 2}.
C8_Witness ==
  /\ pc = "done"
  /\ VarsOf(functionObj) = [k \in {EnvKeyA} |-> Str("1")]
  /\ VarsOf(providerObj) = [k \in {EnvKeyA, EnvKeyB} |->
                              IF k = EnvKeyA THEN Str("x") ELSE Str("2")]
  /\ params.Environment.Variables = [k \in {EnvKeyA, EnvKeyB} |->
                                       IF k = EnvKeyA THEN Str("1") ELSE Str("2")]

\* C9: when a merged value is a structured placeholder, neither the patch nor
\* any update request issued has an Environment field.
C9_PlaceholderDropsEnvironment ==
  SomePlaceholderVariable =>
    /\ params # Undefined => "Environment" \notin DOMAIN params
    /\ \A i \in 1..Len(calls) :
         calls[i].operation = "updateFunctionConfiguration" =>
           "Environment" \notin DOMAIN calls[i].params

\* C9 witness: an environment with a placeholder beside a concrete value,
\* and an update request sent without Environment.
C9_Witness ==
  /\ pc = "done"
  /\ UpdateCalls = 1
  /\ \E k \in DesiredKeys : DesiredVariable(k).t = "object"
  /\ \E k \in DesiredKeys : DesiredVariable(k).t = "string"
  /\ "Environment" \notin DOMAIN calls[Len(calls)].params

(***************************************************************************)
(* Properties of the role resolver.                                        *)
(***************************************************************************)
\* C10: normalizeArnRole of a string containing ':' resolves to that same
\* string and issues no request (no getAccountId, no getRole).
C10_LiteralArnUnchanged ==
  (/\ roleInput # Undefined
   /\ roleInput.t = "string"
   /\ \E i \in 1..Len(roleInput.chars) : roleInput.chars[i] = ":") =>
    /\ pc = "roleResolved"
    /\ roleArn = roleInput
    /\ Len(calls) = callsBefore

\* C10 witness: a literal ARN resolved to itself in a second invocation,
\* after a first one that did issue a lookup.
C10_Witness ==
  /\ pc = "roleResolved"
  /\ resolves = 2
  /\ roleInput = LiteralArn("admin")
  /\ roleArn = LiteralArn("admin")
  /\ callsBefore = 1
  /\ Len(calls) = 1

(***************************************************************************)
(* C11: normalizeArnRole applied to a bare logical name (no ':') whose     *)
(* resource has a type other than AWS::IAM::Role fails with 'Provided      *)
(* resource is not IAM Role.' and issues no remote call.                   *)
(***************************************************************************)
NamesOtherResource(role) ==
  /\ role # Undefined
  /\ role.t = "string"
  /\ \A i \in 1..Len(role.chars) : role.chars[i] # ":"
  /\ role.chars \in DOMAIN Resources
  /\ Resources[role.chars].Type # "AWS::IAM::Role"

C11_NotAnIdentityResource ==
  NamesOtherResource(roleInput) =>
    /\ pc = "rejected"
    /\ error = "Provided resource is not IAM Role."
    /\ roleArn = Undefined
    /\ Len(calls) = callsBefore

\* C11 witness: the name of the bucket resource was rejected in a second
\* invocation, after a first one that issued its lookup.
C11_Witness ==
  /\ roleInput = Chars(<<"Bucket">>)
  /\ pc = "rejected"
  /\ error = "Provided resource is not IAM Role."
  /\ resolves = 2
  /\ callsBefore = 1
  /\ Len(calls) = 1

(***************************************************************************)
(* C12: normalizeArnRole applied to a { 'Fn::GetAtt': [name, 'Arn'] }      *)
(* reference issues exactly one remote request, IAM getRole with RoleName  *)
(* = name, and resolves to the Arn field of the response to that request.  *)
(***************************************************************************)
IsGetAtt(role) == role # Undefined /\ role.t = "object" /\ "GetAtt" \in DOMAIN role

C12_OneLookupForGetAtt ==
  IsGetAtt(roleInput) =>
    /\ Len(calls) = callsBefore + 1
    /\ calls[Len(calls)] =
         [service |-> "IAM", operation |-> "getRole",
          params |-> [RoleName |-> roleInput.GetAtt[1]]]
    /\ pc \in {"awaitGetRole", "roleResolved", "rejected"}
    /\ pc = "awaitGetRole" => roleData = Undefined /\ roleArn = Undefined
    /\ pc = "roleResolved" =>
         /\ roleData # Undefined
         /\ roleArn = (IF "Arn" \in DOMAIN roleData THEN roleData.Arn ELSE Undefined)
    /\ pc = "rejected" => error = "TransportError" /\ roleArn = Undefined

\* C12 witness: the reference to RunRole was resolved, by one getRole request
\* for "RunRole", to the Arn of the response received.
C12_Witness ==
  /\ roleInput = GetAtt("RunRole")
  /\ pc = "roleResolved"
  /\ roleData = [Arn |-> LiteralArn("runner")]
  /\ roleArn = LiteralArn("runner")
  /\ resolves = 2
  /\ callsBefore = 1
  /\ Len(calls) = 2

(***************************************************************************)
(* C13: the document returned by YamlParser.parse contains no relative or  *)
(* remote reference node; when its relative references were read in the    *)
(* root's own directory it is the root with every such reference, nested   *)
(* ones to the second level included, replaced by the parsed document the  *)
(* reference points to.                                                    *)
(***************************************************************************)
IsExternalRef(leaf) == "ref" \in DOMAIN leaf /\ leaf.ref[1] # "#"

SourceOf(target, dir) ==
  IF target[1] = "http:" THEN Remotes[target] ELSE Files[dir \o target]

Expand(tree, dir) ==
  UNION { IF IsExternalRef(n[2])
          THEN { <<n[1] \o m[1], m[2]>> : m \in YamlLoad(SourceOf(n[2].ref, dir)) }
          ELSE {n} : n \in tree }

FullyInlined(root) ==
  Expand(Expand(Expand(YamlLoad(Files[root]), ParentDir(root)), ParentDir(root)),
         ParentDir(root))

C14_AsStated ==
  \A i \in Invocations :
    loader[i].bases \subseteq {ParentDir(loader[i].root)}

(***************************************************************************)
(* C16: during locate at most one listing request is outstanding; the      *)
(* first request carries no continuation token, and each later request is  *)
(* issued on the arrival of the previous response and carries exactly that *)
(* response's NextContinuationToken.                                       *)
(***************************************************************************)
\* requests issued and not yet answered by a page or by a rejection
Outstanding ==
  Len(calls) - pages - (IF pc = "rejected" /\ error = "TransportError" THEN 1 ELSE 0)

C16_SequentialListing ==
  /\ Outstanding = (IF pc = "listing" THEN 1 ELSE 0)
  /\ Len(calls) = (IF pc = "idle" THEN 0 ELSE Len(continuation) + 1)
  /\ \A k \in 1..Len(calls) :
       /\ calls[k].operation = "listObjectsV2"
       /\ calls[k].params.ContinuationToken =
            (IF k = 1 THEN [t |-> "undefined"]
             ELSE continuation[k - 1])

\* C16 witness: a third request is outstanding, carrying the token of the
\* second response, which differs from the token of the first.
C16_Witness ==
  /\ pc = "listing"
  /\ pages = 2
  /\ Len(calls) = 3
  /\ continuation = <<[t |-> "string", v |-> "tokA"], [t |-> "string", v |-> "tokB"]>>
  /\ calls[3].params.ContinuationToken = [t |-> "string", v |-> "tokB"]

(***************************************************************************)
(* C15: one run performs locate, fetch, resolve role, reconcile            *)
(* configuration and sync artifact in this order before it is Done; a run  *)
(* whose step failed issues no later remote call.                          *)
(***************************************************************************)
RunDone == pc = "cleaned"

C15_AsStated ==
  /\ RunDone =>
       /\ lastDeploymentDirectory # Undefined
       /\ template # Undefined
       /\ resolves > 0
       /\ params # Undefined
       /\ syncs # <<>>
  /\ (pc = "rejected" /\ lastDeploymentDirectory = Undefined) =>
       \A k \in 1..Len(calls) : calls[k].operation # "getObject"

(***************************************************************************)
(* C17: when the fetched body passes the integrity gate and is not JSON,   *)
(* downloadTemplateFromS3 fails and neither this.template nor              *)
(* this.templateHash has been changed by the failed fetch.                 *)
(***************************************************************************)
C17_AsStated ==
  (pc = "rejected" /\ error = "SyntaxError") =>
    /\ template = Undefined
    /\ templateHash = Undefined

(***************************************************************************)
(* C18: when the local artifact file does not exist, deployFunction fails  *)
(* with the ENOENT of the read before any remote call: no                  *)
(* updateFunctionCode request is issued for it.                            *)
(***************************************************************************)
C18_ArtifactNotFound ==
  /\ pc = "uploading" => artifact.exists
  /\ \A k \in 1..Len(syncs) :
       ~ syncs[k].found =>
         /\ syncs[k].outcome = "Failed"
         /\ syncs[k].requests = 0
  /\ (pc = "rejected" /\ error = "ENOENT") =>
       /\ Len(calls) = callsBefore
       /\ ~ syncs[Len(syncs)].found

\* C18 witness: after an upload of the artifact, the artifact was removed and
\* the next deployFunction failed without a further request.
C18_Witness ==
  /\ pc = "rejected"
  /\ error = "ENOENT"
  /\ Len(syncs) = 2
  /\ syncs[1].outcome = "Uploaded"
  /\ ~ syncs[2].found
  /\ Len(calls) = 1
  /\ callsBefore = 1

(***************************************************************************)
(* C19: for each of the fields encryption key reference, description,      *)
(* memory size and timeout the patch carries the concrete function-level   *)
(* value if there is one, else the concrete provider-level default if      *)
(* there is one, and else does not have the field.                         *)
(***************************************************************************)
Concrete(obj, f) ==
  /\ obj # Undefined
  /\ f \in DOMAIN obj
  /\ obj[f].t \in {"string", "number", "boolean"}

\* the function-level value if concrete, else the default's if concrete
WithDefault(f, default) ==
  IF Concrete(functionObj, f) THEN functionObj[f]
  ELSE IF Concrete(default, f) THEN default[f]
  ELSE Absent

PatchField(name) == IF name \in DOMAIN params THEN params[name] ELSE Absent

\* the values the claim lets the patch carry for a field, a default of the
\* service object counted as a provider-level default
Carried(f) ==
  IF Concrete(functionObj, f) THEN {functionObj[f]}
  ELSE IF Concrete(providerObj, f) \/ Concrete(serviceObj, f)
  THEN { level[f] : level \in { l \in {providerObj, serviceObj} : Concrete(l, f) } }
  ELSE {Absent}

\* C19 as stated: each of the four fields has a default.
C19_AsStated ==
  params # Undefined =>
    \A f \in {"awsKmsKeyArn", "description", "memorySize", "timeout"} :
      PatchField(PatchName(f)) \in Carried(f)

\* C19 amended: memory size and timeout default to the provider-level value,
\* the key reference defaults to the value of the service object, and the
\* description has no default.
C19_FieldPrecedence ==
  params # Undefined =>
    /\ PatchField("MemorySize") = WithDefault("memorySize", providerObj)
    /\ PatchField("Timeout") = WithDefault("timeout", providerObj)
    /\ PatchField("KMSKeyArn") = WithDefault("awsKmsKeyArn", serviceObj)
    /\ PatchField("Description") = WithDefault("description", Undefined)

\* C19 witness: the function's memory size is a placeholder, so the update
\* sent carries the provider's default.
C19_Witness ==
  /\ pc = "done"
  /\ Field(functionObj, "memorySize") = Placeholder
  /\ Concrete(providerObj, "memorySize")
  /\ PatchField("MemorySize") = providerObj.memorySize
  /\ Len(calls) = 1
  /\ calls[1].operation = "updateFunctionConfiguration"
  /\ calls[1].params = params

(***************************************************************************)
(* C20: the patch has a VpcConfig field only if both the security-group    *)
(* list and the subnet list are present and hold no placeholder; with      *)
(* either list missing or holding a placeholder VpcConfig is left out.     *)
(***************************************************************************)
\* the vpc property the update reads: the function's, else the provider's
DesiredVpc ==
  IF "vpc" \in DOMAIN functionObj THEN functionObj.vpc.vpc
  ELSE IF "vpc" \in DOMAIN providerObj THEN providerObj.vpc.vpc
  ELSE [none |-> TRUE]

ConcreteList(f) ==
  /\ f \in DOMAIN DesiredVpc
  /\ DesiredVpc[f].t = "array"
  /\ \A i \in 1..Len(DesiredVpc[f].items) : DesiredVpc[f].items[i].t # "object"

C20_AsStated ==
  (params # Undefined /\ "VpcConfig" \in DOMAIN params) =>
    (ConcreteList("securityGroupIds") /\ ConcreteList("subnetIds"))

(***************************************************************************)
(* C21: the patch has DeadLetterConfig.TargetArn if and only if a concrete *)
(* dead-letter target is set at function level, and then it is that        *)
(* target; a provider-level onError never adds it.                         *)
(***************************************************************************)
\* a concrete target at function level: a string that is not empty
FunctionTarget ==
  /\ "onError" \in DOMAIN functionObj
  /\ functionObj.onError.t = "string"
  /\ functionObj.onError # [t |-> "string", v |-> ""]

C21_DeadLetterFunctionOnly ==
  params # Undefined =>
    IF FunctionTarget
    THEN PatchField("DeadLetterConfig") = [TargetArn |-> functionObj.onError]
    ELSE "DeadLetterConfig" \notin DOMAIN params

\* C21 witness: the provider alone names a target and the function sets a
\* timeout; the update sent has the timeout and no dead-letter target.
C21_Witness ==
  /\ pc = "done"
  /\ "onError" \in DOMAIN providerObj
  /\ "onError" \notin DOMAIN functionObj
  /\ Len(calls) = 1
  /\ calls[1].operation = "updateFunctionConfiguration"
  /\ calls[1].params = params
  /\ DOMAIN params = {"FunctionName", "Timeout"}

(***************************************************************************)
(* C22: normalizeArnRole applied to a bare logical name that no resource   *)
(* of the template carries fails with an unresolvable-reference error of   *)
(* the resolver, and issues no remote call.  The resolver raises no such   *)
(* error: the name is looked up and the missing resource dereferenced, so  *)
(* the failure is the runtime's TypeError.                                 *)
(***************************************************************************)
NamesMissingResource(role) ==
  /\ role # Undefined
  /\ role.t = "string"
  /\ \A i \in 1..Len(role.chars) : role.chars[i] # ":"
  /\ role.chars \notin DOMAIN Resources

C22_AsStated ==
  NamesMissingResource(roleInput) =>
    /\ pc = "rejected"
    /\ error # "TypeError"
    /\ roleArn = Undefined
    /\ Len(calls) = callsBefore

(***************************************************************************)
(* C29: normalizeArnRole applied to the bare logical name of a resource of *)
(* type AWS::IAM::Role issues exactly one account-identifier lookup and    *)
(* resolves to arn:aws:iam::<accountId>:role<path><roleName>, where path   *)
(* is the declared Path of the resource, or '/' when it declares none.     *)
(***************************************************************************)
NamesIdentityRole(role) ==
  /\ role # Undefined
  /\ role.t = "string"
  /\ \A i \in 1..Len(role.chars) : role.chars[i] # ":"
  /\ role.chars \in DOMAIN Resources
  /\ Resources[role.chars].Type = "AWS::IAM::Role"

DeclaredPath(name) ==
  IF "Path" \in DOMAIN Resources[name].Properties
  THEN Resources[name].Properties.Path
  ELSE <<"/">>

ExpectedArn(accountId, name) ==
  [t |-> "string",
   chars |-> <<"arn", ":", "aws", ":", "iam", ":", ":", accountId, ":", "role">>
               \o DeclaredPath(name) \o <<Resources[name].Properties.RoleName>>]

C29_AccountScopedArn ==
  NamesIdentityRole(roleInput) =>
    /\ Len(calls) = callsBefore + 1
    /\ calls[Len(calls)] = [service |-> "STS", operation |-> "getAccountId"]
    /\ \/ pc = "awaitAccountId" /\ roleArn = Undefined
       \/ pc = "rejected" /\ error = "TransportError" /\ roleArn = Undefined
       \/ /\ pc = "roleResolved"
          /\ \E accountId \in AccountIds :
               roleArn = ExpectedArn(accountId, roleInput.chars)

\* C29 witness: RunRole declares no path and resolved under account 222.
C29_Witness ==
  /\ roleInput = [t |-> "string", chars |-> <<"RunRole">>]
  /\ pc = "roleResolved"
  /\ Len(calls) = callsBefore + 1
  /\ roleArn = [t |-> "string",
                chars |-> <<"arn", ":", "aws", ":", "iam", ":", ":", "222", ":", "role",
                            "/", "runner">>]

(***************************************************************************)
(* C27: when the desired configuration has a concrete role (function       *)
(* level, else provider level), the update request is issued only after    *)
(* the role resolution has completed, follows the lookup of the            *)
(* resolution, and carries the resolved ARN as Role; when the resolution   *)
(* fails (a resource that is no role, a missing resource, a rejected       *)
(* lookup) no update request is issued.                                    *)
(***************************************************************************)
RoleToApply == WithDefault("role", providerObj)

\* what the resolution of a role string may complete with
ResolutionsOf(role) ==
  IF NamesIdentityRole(role)
  THEN { ExpectedArn(accountId, role.chars) : accountId \in AccountIds }
  ELSE IF NamesOtherResource(role) \/ NamesMissingResource(role) THEN {}
  ELSE {role}

LookupsOf(role) == IF NamesIdentityRole(role) THEN 1 ELSE 0

C27_UpdateAfterRole ==
  (pc # "idle" /\ RoleToApply # Absent
     /\ error # "Invalid characters in environment variable") =>
    LET lookups == LookupsOf(RoleToApply) IN
    /\ roleInput = RoleToApply
    /\ UpdateCalls <= 1
    /\ UpdateCalls = 1 =>
         /\ Len(calls) = lookups + 1
         /\ \A k \in 1..lookups : calls[k].operation = "getAccountId"
         /\ calls[Len(calls)].operation = "updateFunctionConfiguration"
         /\ "Role" \in DOMAIN calls[Len(calls)].params
         /\ calls[Len(calls)].params.Role = roleArn
         /\ roleArn \in ResolutionsOf(RoleToApply)
    /\ (pc \in {"awaitAccountId", "roleResolved"}) => UpdateCalls = 0
    /\ (ResolutionsOf(RoleToApply) = {}) => (pc = "rejected" /\ UpdateCalls = 0)
    /\ (pc = "rejected" /\ Len(calls) = lookups) => UpdateCalls = 0

\* C27 witness: the function's role is a placeholder and the provider's
\* names RunRole; the account lookup came first and the update sent after it
\* carries the ARN.
C27_Witness ==
  /\ pc = "done"
  /\ "role" \in DOMAIN functionObj
  /\ functionObj.role.t = "object"
  /\ RoleToApply = [t |-> "string", chars |-> <<"RunRole">>]
  /\ Len(calls) = 2
  /\ calls[1].operation = "getAccountId"
  /\ calls[2].operation = "updateFunctionConfiguration"
  /\ calls[2].params.Role = ExpectedArn("111", <<"RunRole">>)

(***************************************************************************)
(* C28: whatever the desired configuration (concrete values, placeholders  *)
(* and absent fields at function and provider level), no field of a patch  *)
(* sent with updateFunctionConfiguration holds a structured placeholder:   *)
(* KMSKeyArn, Description, MemorySize, Timeout, DeadLetterConfig.TargetArn,*)
(* every Environment value, every VpcConfig list element and Role are      *)
(* concrete.                                                               *)
(***************************************************************************)
IsConcrete(v) == v.t \in {"string", "number", "boolean"}

ConcretePatch(patch) ==
  /\ \A f \in DOMAIN patch \cap {"KMSKeyArn", "Description", "MemorySize", "Timeout", "Role"} :
       IsConcrete(patch[f])
  /\ "DeadLetterConfig" \in DOMAIN patch => IsConcrete(patch.DeadLetterConfig.TargetArn)
  /\ "Environment" \in DOMAIN patch =>
       \A k \in DOMAIN patch.Environment.Variables :
         IsConcrete(patch.Environment.Variables[k])
  /\ "VpcConfig" \in DOMAIN patch =>
       \A l \in DOMAIN patch.VpcConfig :
         /\ patch.VpcConfig[l].t = "array"
         /\ \A i \in 1..Len(patch.VpcConfig[l].items) :
              IsConcrete(patch.VpcConfig[l].items[i])

C28_NoPlaceholderSent ==
  \A i \in 1..Len(calls) :
    calls[i].operation = "updateFunctionConfiguration" => ConcretePatch(calls[i].params)

\* C28 witness: the function's memory size is a placeholder; the update sent
\* carries the provider's memory size in its place.
C28_Witness ==
  /\ pc = "done"
  /\ "memorySize" \in DOMAIN functionObj
  /\ functionObj.memorySize.t = "object"
  /\ Len(calls) = 1
  /\ calls[1].operation = "updateFunctionConfiguration"
  /\ DOMAIN calls[1].params = {"FunctionName", "MemorySize"}
  /\ calls[1].params.MemorySize = [t |-> "number", v |-> 1024]

(***************************************************************************)
(* C25: for every listed key the timestamp the locator uses is the integer *)
(* value of the first path segment after the serverless/<service>/<stage>  *)
(* prefix (its part before the '-'), however many path segments follow; a  *)
(* key without such a segment contributes nothing and does not make the    *)
(* locator fail.  Stated on the result, for a listing without keys of a    *)
(* sibling stage: the timestamp held after the last page is the maximum of *)
(* these values over the keys listed.                                      *)
(***************************************************************************)
\* the key continues the prefix with '/' and a segment
UnderPrefix(key) ==
  /\ Len(key) >= Len(ListPrefix) + 2
  /\ SubSeq(key, 1, Len(ListPrefix) + 1) = ListPrefix \o <<"/">>
  /\ key[Len(ListPrefix) + 2] \notin {"/", "-"}

\* the part before the '-' of the first segment after the prefix
FirstSegmentTime(key) ==
  LET start == Len(ListPrefix) + 2
  IN  ToInteger(SubSeq(key, start, RunEnd(key, start)))

SegmentMaximum(keys) ==
  SetMax({ FirstSegmentTime(k) : k \in { x \in keys : UnderPrefix(x) } } \cup {0})

\* every listed key that starts with the prefix continues it with '/'
OwnStageOnly(keys) ==
  \A k \in keys :
    (Len(k) >= Len(ListPrefix) /\ SubSeq(k, 1, Len(ListPrefix)) = ListPrefix) =>
      UnderPrefix(k)

C25_AsStated ==
  ((pc \in {"searched", "located"} \/ (pc = "rejected" /\ error = NoPriorDeployment))
     /\ OwnStageOnly(listed)) =>
    /\ current = SegmentMaximum(listed)
    /\ pc = "rejected" => SegmentMaximum(listed) = 0

(***************************************************************************)
(* C30: whenever the locator succeeds, the directory it records,           *)
(* serverless/<service>/<stage>/<t>-<ISO(t)>, is a prefix of at least one  *)
(* key the listing returned (a deployment under exactly that service and   *)
(* stage, not under a stage whose name merely starts with the same         *)
(* characters), and the template key requested afterwards is that          *)
(* directory followed by /compiled-cloudformation-template.json.           *)
(***************************************************************************)
IsPrefixOf(p, key) == Len(p) <= Len(key) /\ SubSeq(key, 1, Len(p)) = p

C30_AsStated ==
  lastDeploymentDirectory # Undefined =>
    /\ \E k \in listed : IsPrefixOf(lastDeploymentDirectory.chars \o <<"/">>, k)
    /\ \A i \in 1..Len(calls) :
         calls[i].operation = "getObject" =>
           calls[i].params.Key =
             lastDeploymentDirectory.chars
               \o <<"/", "compiled-cloudformation-template.json">>

(***************************************************************************)
(* C26: the pagination loop issues no listing request after a response     *)
(* that reports no truncation, and once the store has returned such a page *)
(* the locate operation completes, with a directory recorded or rejected   *)
(* with 'Could not find a previous service deployment'.                    *)
(***************************************************************************)
FinalPageReceived == \E k \in 1..Len(flags) : ~ flags[k]

\* a page that reports no truncation is the last page received, and every
\* request issued has been answered
NoRequestAfterFinalPage ==
  \A k \in 1..Len(flags) : ~ flags[k] => (k = Len(flags) /\ Len(calls) = k)

LocateCompleted ==
  \/ pc = "located" /\ lastDeploymentDirectory # Undefined
  \/ pc = "rejected" /\ error = NoPriorDeployment

C26_StopsAndCompletes ==
  /\ [] NoRequestAfterFinalPage
  /\ [] (FinalPageReceived => <> LocateCompleted)

\* C26 witness: the third page was the untruncated one, three requests were
\* issued in all, and the locate has completed with a directory.
C26_Witness ==
  /\ flags = <<TRUE, TRUE, FALSE>>
  /\ Len(calls) = 3
  /\ pc = "located"
  /\ lastDeploymentDirectory # Undefined

(***************************************************************************)
(* C23: setServersideS3EncryptionOptions returns the input parameters      *)
(* plus, for each encryption field set in the deployment bucket object,    *)
(* that field's value, copied as it is; a field the object does not set is *)
(* not added, no other parameter is changed, and the caller's parameter    *)
(* object is left as it was.                                               *)
(***************************************************************************)
\* request parameter -> the field of the bucket object it comes from
EncryptionSource ==
  [ServerSideEncryption |-> "serverSideEncryption",
   SSECustomerAlgorithm |-> "sseCustomerAlgorithim",
   SSECustomerKey |-> "sseCustomerKey",
   SSECustomerKeyMD5 |-> "sseCustomerKeyMD5",
   SSEKMSKeyId |-> "sseKMSKeyId"]

\* the bucket object sets the field: it is there and is not the empty string
SetInBucket(f) ==
  /\ "deploymentBucketObject" \in DOMAIN providerObj
  /\ f \in DOMAIN providerObj.deploymentBucketObject.bucket
  /\ providerObj.deploymentBucketObject.bucket[f] # [t |-> "string", v |-> ""]

C23_EncryptionOptionsFrame ==
  pc = "done" =>
    /\ \A target \in DOMAIN EncryptionSource :
         IF SetInBucket(EncryptionSource[target])
         THEN /\ target \in DOMAIN s3Request
              /\ s3Request[target] =
                   providerObj.deploymentBucketObject.bucket[EncryptionSource[target]]
         ELSE /\ target \in DOMAIN s3Request <=> target \in DOMAIN s3Given
              /\ target \in DOMAIN s3Given => s3Request[target] = s3Given[target]
    /\ DOMAIN s3Request \subseteq DOMAIN s3Given \cup DOMAIN EncryptionSource
    /\ \A f \in DOMAIN s3Given \ DOMAIN EncryptionSource :
         f \in DOMAIN s3Request /\ s3Request[f] = s3Given[f]
    /\ s3Params = s3Given

\* C23 witness: the bucket object sets a KMS key id and a name; the params
\* had a key id of their own and an ACL.  The returned object has the
\* bucket's key id and the ACL, and the caller's object is as it was.
C23_Witness ==
  /\ pc = "done"
  /\ "deploymentBucketObject" \in DOMAIN providerObj
  /\ DOMAIN providerObj.deploymentBucketObject.bucket = {"sseKMSKeyId", "name"}
  /\ s3Given.Key = [t |-> "string", v |-> "svc.zip"]
  /\ "ACL" \in DOMAIN s3Given
  /\ s3Request.SSEKMSKeyId = [t |-> "string", v |-> "key-1"]
  /\ s3Params.SSEKMSKeyId = [t |-> "string", v |-> "key-0"]
  /\ DOMAIN s3Request = {"Bucket", "Key", "ACL", "SSEKMSKeyId"}

(***************************************************************************)
(* C24: when the downloadTemplate hooks of two instances for different     *)
(* stages run interleaved, the template key each instance requests is      *)
(* built from the directory its own locate step found, and the directory   *)
(* an instance has recorded is not overwritten by the other instance.      *)
(***************************************************************************)
OwnDirectory(i) ==
  <<"serverless", "/", "svc", "/", (IF i = 1 THEN "dev" ELSE "prod"), "/">>
    \o NumberToString(runs[i].current) \o <<"-">> \o ToISOString(runs[i].current)

====
